---- MODULE Spec2Model ----
(***************************************************************************)
(* ShowTrackr: the enrichment pass over a user's tracked shows             *)
(* (src/lib/enrich-shows.ts, enrichUserShows), the older in-page pass of   *)
(* /my-shows (src/app/(app)/my-shows/page.tsx), the watch-mark calls of    *)
(* lib/watch-progress.ts, and the show-detail page (ShowDetail.tsx): its   *)
(* user-initiated status change and its load effect with the backfill.     *)
(*                                                                         *)
(* Values.  A JavaScript null is the empty set and a present value v is    *)
(* the singleton {v}.  A date string "YYYY-MM-DD" is the number of its     *)
(* day (days since 2026-01-01); an instant is day * TicksPerDay + tick, so *)
(* that tick 0 is local midnight, what `new Date(d + "T00:00:00")` yields. *)
(***************************************************************************)
EXTENDS Integers, Sequences, FiniteSets, TLC

\* ------------------------------------------------------------- bounds ----

\* Instants per day that the model tells apart (tick 0 is midnight).
TicksPerDay == 2
\* Season numbers run over 1..MaxSeason; numberOfSeasons over 1..MaxSeason+1.
MaxSeason == 2
\* Longest list of tracked shows handed to one enrichment pass.
MaxShows == 2
\* Backfill writes of one session after which the page is not opened again.
MaxBackfills == 2
\* The automatic changes of stored statuses that are followed.
MaxAutoChanges == 2
\* The toggle calls of the show-detail page that are in flight together.
MaxToggles == 2
\* Longest text typed into the search box.
MaxQueryLen == 2

\* ------------------------------------------------------------- values ----

Null == {}
Some(v) == {v}
Val(o) == CHOOSE v \in o : TRUE

SetMax(S) == CHOOSE x \in S : \A y \in S : y <= x

Statuses == {"watching", "plan_to_watch", "on_hold", "completed", "dropped"}

\* ----------------------------------------------------------- calendar ----
\* Date arithmetic as the JavaScript Date object does it in local time
\* (months are 0-based; no daylight-saving shift is modelled).

IsLeapYear(y) == (y % 4 = 0 /\ y % 100 # 0) \/ y % 400 = 0

DaysInYear(y) == IF IsLeapYear(y) THEN 366 ELSE 365

\* The days of the year before month m (0-based), as in the Day Number
\* tables of ECMAScript.
DaysBeforeMonth(y, m) ==
  <<0, 31, 59, 90, 120, 151, 181, 212, 243, 273, 304, 334>>[m + 1]
    + (IF m > 1 /\ IsLeapYear(y) THEN 1 ELSE 0)

RECURSIVE DaysBeforeYear(_)
DaysBeforeYear(y) ==
  IF y = 2026 THEN 0
  ELSE IF y > 2026 THEN DaysBeforeYear(y - 1) + DaysInYear(y - 1)
  ELSE DaysBeforeYear(y + 1) - DaysInYear(y)

\* MakeDay of ECMAScript: month and day may lie outside their range and
\* carry into the next (or previous) year and month.
MakeDay(y, m, d) ==
  LET ym == y + (m \div 12)
      mn == m % 12
  IN DaysBeforeYear(ym) + DaysBeforeMonth(ym, mn) + (d - 1)

\* new Date(dateString + "T00:00:00"): local midnight of that day.
ParseLocalMidnight(day) == day * TicksPerDay

\* The instant of a calendar date and time of day.
InstantOf(c) == MakeDay(c.y, c.m, c.d) * TicksPerDay + c.t

\* d.setMonth(d.getMonth() + k) on the local date c.
SetMonthPlus(c, k) == MakeDay(c.y, c.m + k, c.d) * TicksPerDay + c.t

\* enrich-shows.ts 75-79
NowInstant(c) == InstantOf(c)
ThreeMonthsAgo(c) == SetMonthPlus(c, 0 - 3)
ThreeMonthsLater(c) == SetMonthPlus(c, 3)

\* enrich-shows.ts 75-79: the three instants, taken once per call.
Instants(c) ==
  [ now |-> NowInstant(c),
    threeMonthsAgo |-> ThreeMonthsAgo(c),
    threeMonthsLater |-> ThreeMonthsLater(c) ]

\* ------------------------------------------------- season metadata ----
\* ShowSeasonMeta (lib/tmdb.ts): nextEpisode and lastEpisode are null or
\* {seasonNumber, airDate}, airDate itself null or a date; episodeNumber,
\* tmdbId and isRunning are never read by the enrichment and are left out.

Episode(s, d) == [seasonNumber |-> s, airDate |-> d]

MetaSpace(nextEps, lastEps, seasonCounts, premieres) ==
  { [nextEpisode |-> n, lastEpisode |-> l,
     numberOfSeasons |-> k, latestSeasonAirDate |-> p] :
      n \in nextEps, l \in lastEps, k \in seasonCounts, p \in premieres }

\* One settled promise of Promise.allSettled.
Fulfilled(v) == [status |-> "fulfilled", value |-> v]
Rejected == [status |-> "rejected", value |-> Null]

\* Variant: one rejected fetch empties the whole map, as a plain Promise.all
\* join would.
MetaMapGetAllOrNothing(shows, metaResults, id) ==
  LET hits == { i \in 1..Len(shows) :
                  /\ shows[i].tvmaze_show_id = id
                  /\ metaResults[i].status = "fulfilled"
                  /\ metaResults[i].value # Null }
  IN IF hits = {} \/ \E i \in 1..Len(shows) : metaResults[i].status = "rejected"
     THEN Null ELSE metaResults[SetMax(hits)].value

\* enrich-shows.ts 55-60: metaMap.get(id); a later entry of the same id
\* overwrites an earlier one.
MetaMapGet(shows, metaResults, id) ==
  LET hits == { i \in 1..Len(shows) :
                  /\ shows[i].tvmaze_show_id = id
                  /\ metaResults[i].status = "fulfilled"
                  /\ metaResults[i].value # Null }
  IN IF hits = {} THEN Null ELSE metaResults[SetMax(hits)].value

\* Variant: without watch data every show counts as watched to its end.
MaxWatchedSeasonFailedAsWatched(watchResult, id) ==
  IF watchResult.data = Null THEN MaxSeason + 2
  ELSE SetMax({0} \cup { r.season : r \in
                 { x \in Val(watchResult.data) : x.tvmaze_show_id = id } })

\* enrich-shows.ts 62-71 and 122: maxWatchedSeasonMap.get(id) ?? 0.
MaxWatchedSeason(watchResult, id) ==
  IF watchResult.data = Null THEN 0
  ELSE SetMax({0} \cup { r.season : r \in
                 { x \in Val(watchResult.data) : x.tvmaze_show_id = id } })

\* ------------------------------------------------ tag computation ----

\* Variant: the upper end of the window excluded.
NewSeasonSoonOpenEnd(meta, t) ==
  /\ meta.nextEpisode # Null
  /\ Val(meta.nextEpisode).airDate # Null
  /\ LET nextEpisode == Val(meta.nextEpisode)
         airDate == ParseLocalMidnight(Val(nextEpisode.airDate))
     IN /\ meta.lastEpisode # Null
        /\ nextEpisode.seasonNumber > Val(meta.lastEpisode).seasonNumber
        /\ airDate > t.now
        /\ airDate < t.threeMonthsLater

\* enrich-shows.ts 90-99
NewSeasonSoon(meta, t) ==
  /\ meta.nextEpisode # Null
  /\ Val(meta.nextEpisode).airDate # Null
  /\ LET nextEpisode == Val(meta.nextEpisode)
         airDate == ParseLocalMidnight(Val(nextEpisode.airDate))
     IN /\ meta.lastEpisode # Null
        /\ nextEpisode.seasonNumber > Val(meta.lastEpisode).seasonNumber
        /\ airDate > t.now
        /\ airDate <= t.threeMonthsLater

\* Variant: an episode airing exactly now counts as upcoming.
HasUpcomingNotBeforeNow(meta, t) ==
  /\ meta.nextEpisode # Null
  /\ Val(meta.nextEpisode).airDate # Null
  /\ LET nextEpisode == Val(meta.nextEpisode)
         airDate == ParseLocalMidnight(Val(nextEpisode.airDate))
     IN /\ meta.lastEpisode # Null
        /\ nextEpisode.seasonNumber = Val(meta.lastEpisode).seasonNumber
        /\ airDate >= t.now

\* enrich-shows.ts 90-92, 101-108
HasUpcomingInCurrentSeason(meta, t) ==
  /\ meta.nextEpisode # Null
  /\ Val(meta.nextEpisode).airDate # Null
  /\ LET nextEpisode == Val(meta.nextEpisode)
         airDate == ParseLocalMidnight(Val(nextEpisode.airDate))
     IN /\ meta.lastEpisode # Null
        /\ nextEpisode.seasonNumber = Val(meta.lastEpisode).seasonNumber
        /\ airDate > t.now

\* Variant: the latest season counts as started only above numberOfSeasons.
NewSeasonOutOffByOne(meta, soonFired, maxWatched, t) ==
  /\ ~soonFired
  /\ meta.latestSeasonAirDate # Null
  /\ meta.numberOfSeasons > 1
  /\ LET alreadyWatchingLatest == maxWatched > meta.numberOfSeasons
         premiereDate == ParseLocalMidnight(Val(meta.latestSeasonAirDate))
     IN /\ ~alreadyWatchingLatest
        /\ premiereDate >= t.threeMonthsAgo
        /\ premiereDate <= t.now

\* enrich-shows.ts 117-131; soonFired is newSeasonTag !== null at line 118.
NewSeasonOut(meta, soonFired, maxWatched, t) ==
  /\ ~soonFired
  /\ meta.latestSeasonAirDate # Null
  /\ meta.numberOfSeasons > 1
  /\ LET alreadyWatchingLatest == maxWatched >= meta.numberOfSeasons
         premiereDate == ParseLocalMidnight(Val(meta.latestSeasonAirDate))
     IN /\ ~alreadyWatchingLatest
        /\ premiereDate >= t.threeMonthsAgo
        /\ premiereDate <= t.now

\* enrich-shows.ts 81-140: one element of shows.map(...)
EnrichShow(show, meta, maxWatched, t) ==
  LET soon == meta # Null /\ NewSeasonSoon(Val(meta), t)
      out == meta # Null /\ NewSeasonOut(Val(meta), soon, maxWatched, t)
  IN [ id |-> show.id,
       tvmaze_show_id |-> show.tvmaze_show_id,
       status |-> show.status,
       created_at |-> show.created_at,
       newSeasonTag |-> IF soon THEN "soon" ELSE IF out THEN "out" ELSE "null",
       nextEpisodeAirDate |->
         IF /\ meta # Null
            /\ Val(meta).nextEpisode # Null
            /\ Val(Val(meta).nextEpisode).airDate # Null
         THEN Val(Val(meta).nextEpisode).airDate ELSE Null,
       hasUpcomingEpisodesInCurrentSeason |->
         meta # Null /\ HasUpcomingInCurrentSeason(Val(meta), t) ]

\* ------------------------------------------------- auto transition ----

\* Variant: a soon tag moves a completed show too.
ShouldAutoMoveOnTag(show) ==
  /\ show.status = "completed"
  /\ show.hasUpcomingEpisodesInCurrentSeason \/ show.newSeasonTag = "soon"

\* enrich-shows.ts 150-157: which elements the loop moves.
ShouldAutoMove(show) ==
  show.status = "completed" /\ show.hasUpcomingEpisodesInCurrentSeason

\* enrich-shows.ts 150-157: the list after the loop (statuses set in place).
RECURSIVE AutoMoveStatuses(_)
AutoMoveStatuses(enriched) ==
  IF enriched = <<>> THEN <<>>
  ELSE << IF ShouldAutoMove(Head(enriched))
          THEN [Head(enriched) EXCEPT !.status = "watching"]
          ELSE Head(enriched) >>
       \o AutoMoveStatuses(Tail(enriched))

\* Variant: the status test is skipped when the id is pushed.
RECURSIVE AutoMoveIdsAnyStatus(_)
AutoMoveIdsAnyStatus(enriched) ==
  IF enriched = <<>> THEN <<>>
  ELSE (IF Head(enriched).hasUpcomingEpisodesInCurrentSeason
        THEN <<Head(enriched).id>> ELSE <<>>)
       \o AutoMoveIdsAnyStatus(Tail(enriched))

\* enrich-shows.ts 148-157: autoMoveToWatching, in list order.
RECURSIVE AutoMoveIds(_)
AutoMoveIds(enriched) ==
  IF enriched = <<>> THEN <<>>
  ELSE (IF ShouldAutoMove(Head(enriched)) THEN <<Head(enriched).id>> ELSE <<>>)
       \o AutoMoveIds(Tail(enriched))

\* -------------------------------------------------------- ordering ----

\* enrich-shows.ts 16-23
getSortPriority(show) ==
  IF show.status = "watching" THEN 0
  ELSE IF show.status = "plan_to_watch" THEN 1
  ELSE IF show.status = "on_hold" THEN 2
  ELSE IF show.status = "completed" THEN 3
  ELSE IF show.status = "dropped" THEN 4
  ELSE 5

\* new Date(isoDate).getTime(): midnight (UTC) of that day.
ParseIsoDate(day) == day * TicksPerDay

\* Variant: the season's premiere date is preferred to the last episode's.
SortDatePremiereFirst(meta) ==
  IF meta = Null THEN Null
  ELSE IF Val(meta).latestSeasonAirDate # Null
       THEN Val(meta).latestSeasonAirDate
       ELSE IF Val(meta).lastEpisode # Null
            THEN Val(Val(meta).lastEpisode).airDate
            ELSE Null

\* enrich-shows.ts 180-183: lastEpisode?.airDate ?? latestSeasonAirDate ?? null
SortDate(meta) ==
  IF meta = Null THEN Null
  ELSE IF Val(meta).lastEpisode # Null /\ Val(Val(meta).lastEpisode).airDate # Null
       THEN Val(Val(meta).lastEpisode).airDate
       ELSE Val(meta).latestSeasonAirDate

\* Variant: two dated shows never compare equal.
CompareShowsNoZero(a, b, aMeta, bMeta) ==
  LET pa == getSortPriority(a)
      pb == getSortPriority(b)
      aDate == SortDate(aMeta)
      bDate == SortDate(bMeta)
  IN IF pa # pb THEN pa - pb
     ELSE IF aDate # Null /\ bDate # Null
          THEN (IF ParseIsoDate(Val(bDate)) >= ParseIsoDate(Val(aDate)) THEN 1 ELSE 0 - 1)
     ELSE IF aDate # Null THEN 0 - 1
     ELSE IF bDate # Null THEN 1
     ELSE b.created_at - a.created_at

\* enrich-shows.ts 172-193: the comparator; aMeta and bMeta are the
\* metaMap entries of a and b.
CompareShows(a, b, aMeta, bMeta) ==
  LET pa == getSortPriority(a)
      pb == getSortPriority(b)
      aDate == SortDate(aMeta)
      bDate == SortDate(bMeta)
  IN IF pa # pb THEN pa - pb
     ELSE IF aDate # Null /\ bDate # Null
          THEN ParseIsoDate(Val(bDate)) - ParseIsoDate(Val(aDate))
     ELSE IF aDate # Null THEN 0 - 1
     ELSE IF bDate # Null THEN 1
     ELSE b.created_at - a.created_at

\* Variant: an element goes before the elements it compares equal to.
RECURSIVE InsertSortedUnstable(_, _, _, _)
InsertSortedUnstable(x, sorted, shows, metaResults) ==
  IF sorted = <<>> THEN <<x>>
  ELSE IF CompareShows(Head(sorted), x,
                       MetaMapGet(shows, metaResults, Head(sorted).tvmaze_show_id),
                       MetaMapGet(shows, metaResults, x.tvmaze_show_id)) < 0
       THEN <<Head(sorted)>> \o InsertSortedUnstable(x, Tail(sorted), shows, metaResults)
       ELSE <<x>> \o sorted

\* Array.prototype.sort is stable: an element goes after every element
\* that does not compare greater than it.
RECURSIVE InsertSorted(_, _, _, _)
InsertSorted(x, sorted, shows, metaResults) ==
  IF sorted = <<>> THEN <<x>>
  ELSE IF CompareShows(Head(sorted), x,
                       MetaMapGet(shows, metaResults, Head(sorted).tvmaze_show_id),
                       MetaMapGet(shows, metaResults, x.tvmaze_show_id)) <= 0
       THEN <<Head(sorted)>> \o InsertSorted(x, Tail(sorted), shows, metaResults)
       ELSE <<x>> \o sorted

RECURSIVE SortShows(_, _, _)
SortShows(list, shows, metaResults) ==
  IF list = <<>> THEN <<>>
  ELSE InsertSorted(list[Len(list)],
                    SortShows(SubSeq(list, 1, Len(list) - 1), shows, metaResults),
                    shows, metaResults)

\* ------------------------------------------------- enrichUserShows ----

\* enrich-shows.ts 81-140: shows.map(...) from element i on.
RECURSIVE EnrichFrom(_, _, _, _, _)
EnrichFrom(i, shows, metaResults, watchResult, t) ==
  IF i > Len(shows) THEN <<>>
  ELSE << EnrichShow(shows[i],
                     MetaMapGet(shows, metaResults, shows[i].tvmaze_show_id),
                     MaxWatchedSeason(watchResult, shows[i].tvmaze_show_id),
                     t) >>
       \o EnrichFrom(i + 1, shows, metaResults, watchResult, t)

\* enrich-shows.ts 75-140
EnrichAll(shows, metaResults, watchResult, now) ==
  EnrichFrom(1, shows, metaResults, watchResult, Instants(now))

\* enrich-shows.ts 142-168: the ids of the update command.
UpdateIds(shows, metaResults, watchResult, now) ==
  AutoMoveIds(EnrichAll(shows, metaResults, watchResult, now))

\* Variant: the list is sorted before the statuses are moved.
EnrichedSortedBeforeMove(shows, metaResults, watchResult, now) ==
  AutoMoveStatuses(SortShows(EnrichAll(shows, metaResults, watchResult, now),
                             shows, metaResults))

\* enrich-shows.ts 170-195: the returned list.
EnrichedSorted(shows, metaResults, watchResult, now) ==
  SortShows(AutoMoveStatuses(EnrichAll(shows, metaResults, watchResult, now)),
            shows, metaResults)

\* ------------------------------------------------------------ state ----

VARIABLES
  pc,          \* position of the enrichment call: idle, awaiting, returned
  userShows,   \* the list handed to the pass (user_shows, created_at DESC)
  clock,       \* new Date() of the pass, as a local calendar date and tick
  metaFetch,   \* the settled getShowSeasonMeta promises, one per show
  watchFetch,  \* the result of the batched watch_progress query
  rendered,    \* the list the pass returned
  updateCmds,  \* the update commands issued: [status, ids] of
               \* update({status}).in("id", ids), in the order issued
  writes,      \* per command: pending, ok or failed
  stored,      \* user_shows.status by row id
  errorLog,    \* console.error calls of the write's .then handler
  fetched,     \* tvmaze ids getShowSeasonMeta was called with
  watchQueries \* number of watch_progress queries sent

\* The show-detail page of show 1 (ShowDetail.tsx).
VARIABLES
  trackingStatus, \* "undefined" while loading, "null" untracked, or a status
  isMutating,
  bulkMarkingRef,
  watchedSet,     \* episode keys shown as watched
  watchStore,     \* the watch_progress rows of the signed-in user:
                  \* [tvmaze_show_id, season, episode]
  hss              \* the running handleStatusSelect call:
                  \* [at, prev, newStatus], at = idle, getUser, upsert,
                  \* bulk, done or failed

passVars == <<pc, userShows, clock, metaFetch, watchFetch, rendered, updateCmds,
              writes, errorLog, fetched, watchQueries>>

detailVars == <<trackingStatus, isMutating, bulkMarkingRef, watchedSet,
                watchStore, hss>>

\* The calls of lib/watch-progress.ts.
VARIABLES
  wp,     \* the running or last call: [fn, showId, eps, at, i, before,
          \* user, storeFailed]; at = idle, getUser, write, returned or
          \* threw; i counts the deletes of unmarkSeasonWatched that
          \* succeeded; before is the table when the call began; user
          \* holds once getUser() delivered a user, storeFailed once the
          \* store answered a write with an error
  wpPrev  \* the call that ended before wp began

wpVars == <<wp, wpPrev>>

\* The load effect of the show-detail page (ShowDetail.tsx 207-238).
VARIABLES
  watchLoading,
  loadDue,     \* a dependency of the effect changed; it is evaluated next
  load,        \* the effect's promise chain: [at, status, fetched]; at =
               \* idle, fetch, backfillUser or backfillWrite; status is
               \* the trackingStatus the evaluation closed over, fetched
               \* the set fetchWatchedEpisodes resolved with
  backfillLog  \* the backfill writes issued in this session, in order:
               \* [status, fetched, eps, ok]

loadVars == <<watchLoading, loadDue, load, backfillLog>>

\* The other handlers of the show-detail page.
VARIABLES
  hr,            \* the running or last handleRemove call: [at, prev]; at =
                 \* idle, getUser, delete, done or failed
  toggles,       \* the toggleEpisode and toggleSeasonWatched calls in flight, a set of [kind, wasWatched, call]
                 \* flight, a set of [fn, keys, wasWatched, at, i]
  watchMutating  \* episode keys with a toggleEpisode call in flight

pageVars == <<hr, toggles, watchMutating>>

\* The typed search of the search page (SearchView.tsx 169-172, 268-304).
VARIABLES
  query,         \* the text of the search box, a sequence of characters
  searchResults, \* Null for [] or Some(q): the shows the server found for the request of q
  status,        \* idle, loading, success, empty or error
  debounceRef,   \* Null or Some(q): the pending timer of the effect that ran for q
  inFlight       \* the requests to /api/search that have not settled, by their q

searchVars == <<query, searchResults, status, debounceRef, inFlight>>

\* getShowSeasonMeta of lib/tmdb.ts, the auto-complete effect of the
\* show-detail page, and the automatic changes of stored statuses.
VARIABLES
  rawSeasons,   \* raw.seasons of the TMDB answer: Null (absent) or Some(list of [season_number, air_date])
  seasonMeta,   \* the call of getShowSeasonMeta: [at, latestSeasonAirDate]; at = idle, pending, ok or null
  auto,         \* the handleStatusSelect("completed") call made by the auto-complete effect, shaped as hss
  autoLog       \* the changes of stored statuses made without a user action: [by, id, from, to]
extraVars == <<rawSeasons, seasonMeta, auto, autoLog>>
otherVars == <<pageVars, searchVars, extraVars>>

vars == <<passVars, stored, detailVars, wpVars, loadVars, otherVars>>

\* ----------------------------------------------------------- inputs ----

Show(i, st) == [id |-> i, tvmaze_show_id |-> i, status |-> st, created_at |-> (MaxShows + 1) - i]

\* Lists of n tracked shows as the pages read them: one row per show, newest
\* first (.order("created_at", { ascending: false })).
ShowLists(n) ==
  { [i \in 1..n |-> Show(i, f[i])] : f \in [1..n -> Statuses] }

AllShowLists == UNION { ShowLists(n) : n \in 0..MaxShows }

Today(c) == MakeDay(c.y, c.m, c.d)

\* The clock of the list-level runs.
ListClocks == { [y |-> 2026, m |-> 10, d |-> 6, t |-> 1] }

\* Metadata of the list-level runs: a next episode tomorrow in season 1 or 2
\* or none, the last episode in season 1, two seasons, the latest of them out
\* yesterday.
ListMetas(c) ==
  MetaSpace({Null} \cup { Some(Episode(s, Some(Today(c) + 1))) : s \in 1..2 },
            { Some(Episode(1, Some(Today(c) - 1))) },
            {2},
            { Some(Today(c) - 1) })

ListWatch ==
  { [data |-> Null], [data |-> Some({})],
    [data |-> Some({[tvmaze_show_id |-> 1, season |-> 2]})] }

Settled(metas) == {Rejected, Fulfilled(Null)} \cup { Fulfilled(Some(m)) : m \in metas }

\* -------------------------------------------------------- operations ----

HssIdle == [at |-> "idle", prev |-> "undefined", newStatus |-> "undefined"]

\* No load effect is running and none has run.
LoadIdle == [at |-> "idle", status |-> "undefined", fetched |-> {}]

LoadClosed ==
  /\ watchLoading = TRUE
  /\ loadDue = FALSE
  /\ load = LoadIdle
  /\ backfillLog = <<>>

\* No handleRemove call has been made.
HrIdle == [at |-> "idle", prev |-> "undefined"]

\* getShowSeasonMeta has not been called.
MetaIdle == [at |-> "idle", latestSeasonAirDate |-> Null]

\* No other handler of the page runs and nothing was changed automatically.
PageClosed ==
  /\ hr = HrIdle
  /\ toggles = {}
  /\ watchMutating = {}
  /\ auto = HssIdle
  /\ autoLog = <<>>

\* SearchView.tsx 169-172: the search page as mounted.
SearchClosed ==
  /\ query = <<>>
  /\ searchResults = Null
  /\ status = "idle"
  /\ debounceRef = Null
  /\ inFlight = {}

MetaClosed ==
  /\ rawSeasons = Null
  /\ seasonMeta = MetaIdle

OtherClosed == PageClosed /\ SearchClosed /\ MetaClosed

\* No enrichment pass runs and the user tracks nothing.
PassClosed ==
  /\ pc = "idle"
  /\ userShows = <<>>
  /\ clock \in ListClocks
  /\ metaFetch = <<>>
  /\ watchFetch = [data |-> Null]
  /\ rendered = <<>>
  /\ updateCmds = <<>>
  /\ writes = <<>>
  /\ stored = <<>>
  /\ errorLog = 0
  /\ fetched = <<>>
  /\ watchQueries = 0

\* No call of lib/watch-progress.ts has been made.
WpIdle == [fn |-> "none", showId |-> 0, eps |-> <<>>, at |-> "idle", i |-> 0,
           before |-> {}, user |-> FALSE, storeFailed |-> FALSE]

\* No show-detail page is open.
DetailClosed ==
  /\ trackingStatus = "undefined"
  /\ isMutating = FALSE
  /\ bulkMarkingRef = FALSE
  /\ watchedSet = {}
  /\ watchStore = {}
  /\ hss = HssIdle
  /\ wp = WpIdle
  /\ wpPrev = WpIdle
  /\ LoadClosed
  /\ OtherClosed

Init ==
  /\ pc = "idle"
  /\ userShows \in AllShowLists
  /\ clock \in ListClocks
  /\ metaFetch = <<>>
  /\ watchFetch = [data |-> Null]
  /\ rendered = <<>>
  /\ updateCmds = <<>>
  /\ writes = <<>>
  /\ stored = [i \in 1..Len(userShows) |-> userShows[i].status]
  /\ errorLog = 0
  /\ fetched = <<>>
  /\ watchQueries = 0
  /\ DetailClosed

\* Variant: the call issues its fetches and its query without looking at
\* the length of the list.
EnrichCallWithoutEmptyCheck ==
  /\ pc = "idle"
  /\ pc' = "awaiting"
  /\ fetched' = [i \in 1..Len(userShows) |-> userShows[i].tvmaze_show_id]
  /\ watchQueries' = watchQueries + 1
  /\ rendered' = <<>>
  /\ UNCHANGED <<userShows, clock, metaFetch, watchFetch, updateCmds, writes,
                 stored, errorLog>>
  /\ UNCHANGED <<detailVars, wpVars, loadVars, otherVars>>

\* enrich-shows.ts 35-53: the call up to its await; an empty list returns
\* at once.
EnrichCall ==
  /\ pc = "idle"
  /\ IF Len(userShows) = 0
     THEN /\ pc' = "returned"
          /\ UNCHANGED <<fetched, watchQueries>>
     ELSE /\ pc' = "awaiting"
          /\ fetched' = [i \in 1..Len(userShows) |-> userShows[i].tvmaze_show_id]
          /\ watchQueries' = watchQueries + 1
  /\ rendered' = <<>>
  /\ UNCHANGED <<userShows, clock, metaFetch, watchFetch, updateCmds, writes,
                 stored, errorLog>>
  /\ UNCHANGED <<detailVars, wpVars, loadVars, otherVars>>

UpdateCmd(st, ids) == [status |-> st, ids |-> ids]

\* enrich-shows.ts 45-195: both fetches have settled; the rest of the call
\* runs to its return without another await.
EnrichResume(metas, watches) ==
  /\ pc = "awaiting"
  /\ \E mr \in [1..Len(userShows) -> Settled(metas)], wr \in watches :
       LET ids == UpdateIds(userShows, mr, wr, clock)
       IN /\ metaFetch' = mr
          /\ watchFetch' = wr
          /\ rendered' = EnrichedSorted(userShows, mr, wr, clock)
          /\ IF Len(ids) > 0
             THEN /\ updateCmds' = Append(updateCmds, UpdateCmd("watching", ids))
                  /\ writes' = Append(writes, "pending")
             ELSE UNCHANGED <<updateCmds, writes>>
  /\ pc' = "returned"
  /\ UNCHANGED <<userShows, clock, stored, errorLog, fetched, watchQueries>>
  /\ UNCHANGED <<detailVars, wpVars, loadVars, otherVars>>

\* user_shows after update({status}).in("id", ids): only rows whose id is
\* listed are written.
ApplyUpdate(st, cmd) ==
  [ i \in DOMAIN st |->
      IF \E k \in 1..Len(cmd.ids) : cmd.ids[k] = i THEN cmd.status ELSE st[i] ]

\* The rows from i on whose status differs between st and st2, as entries
\* of the log of automatic changes.
RECURSIVE StatusChanges(_, _, _, _)
StatusChanges(by, st, st2, i) ==
  IF i > Len(st) THEN <<>>
  ELSE (IF st[i] # st2[i]
        THEN << [by |-> by, id |-> i, from |-> st[i], to |-> st2[i]] >>
        ELSE <<>>)
       \o StatusChanges(by, st, st2, i + 1)

\* Variant: a failed write takes the moved statuses back.
AfterWriteRolledBack(list, error) ==
  IF error
  THEN [ i \in 1..Len(list) |->
           IF list[i].hasUpcomingEpisodesInCurrentSeason /\ list[i].status = "watching"
           THEN [list[i] EXCEPT !.status = "completed"] ELSE list[i] ]
  ELSE list

\* enrich-shows.ts 165-167: the list the caller holds after the write
\* settled; the handler only logs.
AfterWriteSettled(list, error) == list

\* enrich-shows.ts 161-167: the write settles, after the call returned.
UpdateSettle ==
  /\ \E k \in 1..Len(updateCmds), error \in BOOLEAN :
       /\ writes[k] = "pending"
       /\ writes' = [writes EXCEPT ![k] = IF error THEN "failed" ELSE "ok"]
       /\ stored' = IF error THEN stored ELSE ApplyUpdate(stored, updateCmds[k])
       /\ errorLog' = IF error THEN errorLog + 1 ELSE errorLog
       /\ rendered' = AfterWriteSettled(rendered, error)
       /\ autoLog' = IF error THEN autoLog
                     ELSE autoLog \o StatusChanges("enrich", stored,
                                                   ApplyUpdate(stored, updateCmds[k]), 1)
  /\ UNCHANGED <<pc, userShows, clock, metaFetch, watchFetch, updateCmds,
                 fetched, watchQueries>>
  /\ UNCHANGED <<detailVars, wpVars, loadVars, pageVars, searchVars,
                 rawSeasons, seasonMeta, auto>>

EnrichResumeList == EnrichResume(ListMetas(clock), ListWatch)

Next == EnrichCall \/ EnrichResumeList \/ UpdateSettle

Spec == Init /\ [][Next]_vars

\* ------------------------------------- the in-page pass of /my-shows ----

\* my-shows/page.tsx 65-107: one element of shows.map(...)
MyShowsEnrichShow(show, meta, t) ==
  [ id |-> show.id,
    tvmaze_show_id |-> show.tvmaze_show_id,
    status |-> show.status,
    created_at |-> show.created_at,
    newSeasonComingSoon |-> meta # Null /\ NewSeasonSoon(Val(meta), t),
    nextEpisodeAirDate |->
      IF /\ meta # Null
         /\ Val(meta).nextEpisode # Null
         /\ Val(Val(meta).nextEpisode).airDate # Null
      THEN Val(Val(meta).nextEpisode).airDate ELSE Null,
    hasUpcomingEpisodesInCurrentSeason |->
      meta # Null /\ HasUpcomingInCurrentSeason(Val(meta), t) ]

\* my-shows/page.tsx 116-126: the status the loop leaves on a show.
MyShowsAutoStatus(show) ==
  IF show.status # "completed" THEN show.status
  ELSE IF show.hasUpcomingEpisodesInCurrentSeason THEN "watching"
  ELSE IF show.newSeasonComingSoon THEN "plan_to_watch"
  ELSE show.status

\* my-shows/page.tsx 113-126: the ids pushed for one target status.
RECURSIVE MyShowsMoveIds(_, _)
MyShowsMoveIds(enriched, target) ==
  IF enriched = <<>> THEN <<>>
  ELSE (IF /\ Head(enriched).status = "completed"
           /\ MyShowsAutoStatus(Head(enriched)) = target
        THEN <<Head(enriched).id>> ELSE <<>>)
       \o MyShowsMoveIds(Tail(enriched), target)

\* my-shows/page.tsx 150-156: the comparator.
MyShowsCompare(a, b) ==
  LET pa == getSortPriority(a)
      pb == getSortPriority(b)
  IN IF pa # pb THEN pa - pb ELSE b.created_at - a.created_at

RECURSIVE MyShowsInsert(_, _)
MyShowsInsert(x, sorted) ==
  IF sorted = <<>> THEN <<x>>
  ELSE IF MyShowsCompare(Head(sorted), x) <= 0
       THEN <<Head(sorted)>> \o MyShowsInsert(x, Tail(sorted))
       ELSE <<x>> \o sorted

RECURSIVE MyShowsSort(_)
MyShowsSort(list) ==
  IF list = <<>> THEN <<>>
  ELSE MyShowsInsert(list[Len(list)], MyShowsSort(SubSeq(list, 1, Len(list) - 1)))

\* my-shows/page.tsx 65-107: shows.map(...) from element i on.
RECURSIVE MyShowsEnrichFrom(_, _, _, _)
MyShowsEnrichFrom(i, shows, metaResults, t) ==
  IF i > Len(shows) THEN <<>>
  ELSE << MyShowsEnrichShow(shows[i],
                            MetaMapGet(shows, metaResults, shows[i].tvmaze_show_id),
                            t) >>
       \o MyShowsEnrichFrom(i + 1, shows, metaResults, t)

\* my-shows/page.tsx 61-107
MyShowsEnrichAll(shows, metaResults, now) ==
  MyShowsEnrichFrom(1, shows, metaResults, Instants(now))

\* my-shows/page.tsx 19-57: the page up to its await on the metadata; with
\* no shows it renders at once.
MyShowsCall ==
  /\ pc = "idle"
  /\ IF Len(userShows) = 0
     THEN /\ pc' = "returned"
          /\ UNCHANGED fetched
     ELSE /\ pc' = "awaiting"
          /\ fetched' = [i \in 1..Len(userShows) |-> userShows[i].tvmaze_show_id]
  /\ rendered' = <<>>
  /\ UNCHANGED <<userShows, clock, metaFetch, watchFetch, updateCmds, writes,
                 stored, errorLog, watchQueries>>
  /\ UNCHANGED <<detailVars, wpVars, loadVars, otherVars>>

\* my-shows/page.tsx 48-158: the metadata has settled; the page enriches,
\* moves, issues its writes, sorts and renders.
MyShowsResume ==
  /\ pc = "awaiting"
  /\ \E mr \in [1..Len(userShows) -> Settled(ListMetas(clock))] :
       LET enriched == MyShowsEnrichAll(userShows, mr, clock)
           toWatching == MyShowsMoveIds(enriched, "watching")
           toPlan == MyShowsMoveIds(enriched, "plan_to_watch")
           cmds == (IF Len(toWatching) > 0
                    THEN <<UpdateCmd("watching", toWatching)>> ELSE <<>>)
                   \o (IF Len(toPlan) > 0
                       THEN <<UpdateCmd("plan_to_watch", toPlan)>> ELSE <<>>)
       IN /\ metaFetch' = mr
          /\ rendered' = MyShowsSort([ i \in 1..Len(enriched) |->
                           [enriched[i] EXCEPT !.status = MyShowsAutoStatus(enriched[i])] ])
          /\ updateCmds' = updateCmds \o cmds
          /\ writes' = writes \o [k \in 1..Len(cmds) |-> "pending"]
  /\ pc' = "returned"
  /\ UNCHANGED <<userShows, clock, watchFetch, stored, errorLog, fetched,
                 watchQueries>>
  /\ UNCHANGED <<detailVars, wpVars, loadVars, otherVars>>

NextMyShows == MyShowsCall \/ MyShowsResume \/ UpdateSettle

SpecMyShows == Init /\ [][NextMyShows]_vars

\* ---------------------------------------- the tags of a single show ----
\* The same call on a one-show list, with the clock and the dates drawn
\* around the edges of the two three-month windows.

TagClocks ==
  { [y |-> d[1], m |-> d[2], d |-> d[3], t |-> t] :
      d \in { <<2026, 10, 30>>, <<2027, 0, 31>> },
      t \in 0..(TicksPerDay - 1) }

DayOf(instant) == instant \div TicksPerDay

TagDates(c) ==
  { b + k : b \in { Today(c), DayOf(ThreeMonthsLater(c)), DayOf(ThreeMonthsAgo(c)) },
            k \in {0 - 1, 0, 1} }
  \cup { Today(c) + 400 }

TagMetas(c) ==
  MetaSpace({Null} \cup { Some(Episode(s, d)) :
                            s \in 1..MaxSeason,
                            d \in {Null} \cup { Some(x) : x \in TagDates(c) } },
            {Null} \cup { Some(Episode(s, Some(Today(c) - 1))) : s \in 1..MaxSeason },
            1..(MaxSeason + 1),
            {Null} \cup { Some(x) : x \in TagDates(c) })

\* Watch rows: at most one of show 1, with or without a row of another show.
TagWatch ==
  { [data |-> Null] } \cup
  { [data |-> Some(own \cup other)] :
      own \in {{}} \cup { {[tvmaze_show_id |-> 1, season |-> s]} : s \in 1..(MaxSeason + 1) },
      other \in { {}, {[tvmaze_show_id |-> 2, season |-> MaxSeason + 1]} } }

InitTag ==
  /\ pc = "idle"
  /\ userShows \in { <<Show(1, st)>> : st \in {"completed"} }
  /\ clock \in TagClocks
  /\ metaFetch = <<>>
  /\ watchFetch = [data |-> Null]
  /\ rendered = <<>>
  /\ updateCmds = <<>>
  /\ writes = <<>>
  /\ stored = [i \in 1..Len(userShows) |-> userShows[i].status]
  /\ errorLog = 0
  /\ fetched = <<>>
  /\ watchQueries = 0
  /\ DetailClosed

EnrichResumeTag == EnrichResume(TagMetas(clock), TagWatch)

NextTag == EnrichCall \/ EnrichResumeTag \/ UpdateSettle

SpecTag == InitTag /\ [][NextTag]_vars

\* ------------------------------------- the ordering of one pass ----
\* enrichUserShows is handed lists in any order of created_at, two of the
\* shows possibly created at the same instant; no show has a next episode,
\* so that no status moves and the tiers are those of the input.

SortStatuses == {"watching", "on_hold"}

SortLists(n) ==
  { [i \in 1..n |-> [Show(i, f[i][1]) EXCEPT !.created_at = f[i][2]]] :
      f \in [1..n -> SortStatuses \X (1..MaxShows)] }

AllSortLists == UNION { SortLists(n) : n \in 0..MaxShows }

\* Metadata of the ordering runs: the last episode aired the day before
\* yesterday while the latest season opened yesterday; the last episode
\* aired yesterday; a last episode without a date and a dated season; no
\* last episode, the season dated or not.
SortMetas(c) ==
  MetaSpace({Null}, { Some(Episode(1, Some(Today(c) - 2))) }, {1}, { Some(Today(c) - 1) })
  \cup MetaSpace({Null}, { Some(Episode(1, Some(Today(c) - 1))) }, {1}, {Null})
  \cup MetaSpace({Null}, { Some(Episode(1, Null)) }, {1}, { Some(Today(c) - 2) })
  \cup MetaSpace({Null}, {Null}, {1}, { Null, Some(Today(c) - 1) })

SortWatch == { [data |-> Some({})] }

InitSort ==
  /\ pc = "idle"
  /\ userShows \in AllSortLists
  /\ clock \in ListClocks
  /\ metaFetch = <<>>
  /\ watchFetch = [data |-> Null]
  /\ rendered = <<>>
  /\ updateCmds = <<>>
  /\ writes = <<>>
  /\ stored = [i \in 1..Len(userShows) |-> userShows[i].status]
  /\ errorLog = 0
  /\ fetched = <<>>
  /\ watchQueries = 0
  /\ DetailClosed

EnrichResumeSort == EnrichResume(SortMetas(clock), SortWatch)

NextSort == EnrichCall \/ EnrichResumeSort

SpecSort == InitSort /\ [][NextSort]_vars

\* ------------------------------------------ lib/watch-progress.ts ----
\* watch_progress holds at most one row per (user_id, tvmaze_show_id,
\* season, episode) (the table's unique constraint), so the rows of the
\* signed-in user are a set of [tvmaze_show_id, season, episode].

Ep(s, e) == [season |-> s, episode |-> e]

MarkRow(showId, ep) ==
  [tvmaze_show_id |-> showId, season |-> ep.season, episode |-> ep.episode]

SeqRange(q) == { q[k] : k \in 1..Len(q) }

\* Variant: the conflict target leaves out the episode, so a row replaces
\* the rows of its show and season.
UpsertMarksPerSeason(store, showId, eps) ==
  { r \in store : ~(r.tvmaze_show_id = showId /\ \E e \in eps : e.season = r.season) }
  \cup { MarkRow(showId, e) : e \in eps }

\* upsert(rows, { onConflict: "user_id,tvmaze_show_id,season,episode" }):
\* a row whose key is present stays as it is, the others are inserted.
UpsertMarks(store, showId, eps) ==
  store \cup { MarkRow(showId, e) : e \in eps }

\* Variant: the delete filters on show and season only.
DeleteMarkWholeSeason(store, showId, ep) ==
  { r \in store : ~(r.tvmaze_show_id = showId /\ r.season = ep.season) }

\* delete().eq("tvmaze_show_id", ..).eq("season", ..).eq("episode", ..):
\* the rows that match go; matching none is no error.
DeleteMark(store, showId, ep) ==
  { r \in store : r # MarkRow(showId, ep) }

\* One awaited store write of a call: the call after the write settled and
\* the table it leaves; error is the store's answer.
WriteThrew(call, store) ==
  [call |-> [call EXCEPT !.at = "threw", !.storeFailed = TRUE], store |-> store]

\* part_009 654-673
markEpisodeWatched(call, store, error) ==
  IF error THEN WriteThrew(call, store)
  ELSE [call |-> [call EXCEPT !.at = "returned"],
        store |-> UpsertMarks(store, call.showId, {call.eps[1]})]

\* Variant: a missing row is reported as an error.
unmarkEpisodeWatchedStrict(call, store, error) ==
  IF error \/ MarkRow(call.showId, call.eps[1]) \notin store
  THEN [call |-> [call EXCEPT !.at = "threw"], store |-> store]
  ELSE [call |-> [call EXCEPT !.at = "returned"],
        store |-> DeleteMark(store, call.showId, call.eps[1])]

\* part_009 675-692
unmarkEpisodeWatched(call, store, error) ==
  IF error THEN WriteThrew(call, store)
  ELSE [call |-> [call EXCEPT !.at = "returned"],
        store |-> DeleteMark(store, call.showId, call.eps[1])]

\* part_009 694-714: one upsert of all rows.
markSeasonWatched(call, store, error) ==
  IF error THEN WriteThrew(call, store)
  ELSE [call |-> [call EXCEPT !.at = "returned"],
        store |-> UpsertMarks(store, call.showId, SeqRange(call.eps))]

\* part_009 716-723
markAllWatched(call, store, error) == markSeasonWatched(call, store, error)

\* Variant: a failed delete is skipped and the loop goes on.
unmarkSeasonWatchedSkipping(call, store, error) ==
  LET n == call.i + 1
  IN [call |-> [call EXCEPT !.i = n,
                            !.storeFailed = call.storeFailed \/ error,
                            !.at = IF n = Len(call.eps) THEN "returned" ELSE "write"],
      store |-> IF error THEN store ELSE DeleteMark(store, call.showId, call.eps[n])]

\* part_009 725-746: one pass of the loop, the delete of the next episode;
\* the first error is thrown and ends the loop.
unmarkSeasonWatched(call, store, error) ==
  LET n == call.i + 1
  IN IF error THEN WriteThrew(call, store)
     ELSE [call |-> [call EXCEPT !.i = n,
                                 !.at = IF n = Len(call.eps) THEN "returned" ELSE "write"],
           store |-> DeleteMark(store, call.showId, call.eps[n])]

WpFns == {"markEpisodeWatched", "unmarkEpisodeWatched", "markSeasonWatched",
          "markAllWatched", "unmarkSeasonWatched"}

BatchFns == {"markSeasonWatched", "markAllWatched", "unmarkSeasonWatched"}

WriteStep(call, store, error) ==
  CASE call.fn = "markEpisodeWatched" -> markEpisodeWatched(call, store, error)
    [] call.fn = "unmarkEpisodeWatched" -> unmarkEpisodeWatched(call, store, error)
    [] call.fn = "markSeasonWatched" -> markSeasonWatched(call, store, error)
    [] call.fn = "markAllWatched" -> markAllWatched(call, store, error)
    [] call.fn = "unmarkSeasonWatched" -> unmarkSeasonWatched(call, store, error)

\* The episodes the calls are made with, and the batches: none, one
\* episode, both.
MarkEpisodes == { Ep(1, 1), Ep(1, 2) }
MarkBatches == { <<>>, <<Ep(1, 1)>>, <<Ep(1, 1), Ep(1, 2)>> }

WpArgs(fn) == IF fn \in BatchFns THEN MarkBatches ELSE { <<e>> : e \in MarkEpisodes }

\* A call begins, once the one before it has ended: a batch function
\* returns at once on an empty batch (part_009 698, 730), every other call
\* awaits getUser().
WpCall ==
  /\ wp.at \in {"idle", "returned", "threw"}
  /\ \E fn \in WpFns :
       \E eps \in WpArgs(fn) :
         wp' = [fn |-> fn, showId |-> 1, eps |-> eps,
                at |-> IF fn \in BatchFns /\ eps = <<>> THEN "returned" ELSE "getUser",
                i |-> 0, before |-> watchStore, user |-> FALSE,
                storeFailed |-> FALSE]
  /\ wpPrev' = wp
  /\ UNCHANGED <<passVars, stored, detailVars, loadVars, otherVars>>

\* part_009 618-625: getUser() settled; without a user it throws.
WpGetUser ==
  /\ wp.at = "getUser"
  /\ \E user \in BOOLEAN :
       wp' = [wp EXCEPT !.user = user, !.at = IF user THEN "write" ELSE "threw"]
  /\ UNCHANGED <<passVars, stored, detailVars, loadVars, otherVars, wpPrev>>

\* The awaited write settled.
WpWrite ==
  /\ wp.at = "write"
  /\ \E error \in BOOLEAN :
       LET r == WriteStep(wp, watchStore, error)
       IN wp' = r.call /\ watchStore' = r.store
  /\ UNCHANGED <<passVars, stored, trackingStatus, isMutating, bulkMarkingRef,
                 watchedSet, hss, wpPrev, loadVars, otherVars>>

\* The table when the first call is made: any of the marks of show 1 the
\* calls are about and a mark of another show.
InitialMarks ==
  { MarkRow(1, e) : e \in MarkEpisodes } \cup { MarkRow(2, Ep(1, 1)) }

InitMarks ==
  /\ pc = "idle"
  /\ userShows = <<>>
  /\ clock \in ListClocks
  /\ metaFetch = <<>>
  /\ watchFetch = [data |-> Null]
  /\ rendered = <<>>
  /\ updateCmds = <<>>
  /\ writes = <<>>
  /\ stored = <<>>
  /\ errorLog = 0
  /\ fetched = <<>>
  /\ watchQueries = 0
  /\ trackingStatus = "undefined"
  /\ isMutating = FALSE
  /\ bulkMarkingRef = FALSE
  /\ watchedSet = {}
  /\ watchStore \in SUBSET InitialMarks
  /\ hss = HssIdle
  /\ wp = WpIdle
  /\ wpPrev = WpIdle
  /\ LoadClosed
  /\ OtherClosed

NextMarks == WpCall \/ WpGetUser \/ WpWrite

SpecMarks == InitMarks /\ [][NextMarks]_vars

\* ------------------------------------------- the show-detail page ----

\* The episodes prop of the page: two aired and numbered, a special without
\* a number, and one airing tomorrow.
DetailEpisodes(c) ==
  LET today == Today(c)
  IN << [season |-> 1, number |-> Some(1), airdate |-> Some(today - 8)],
        [season |-> 1, number |-> Some(2), airdate |-> Some(today - 1)],
        [season |-> 1, number |-> Null, airdate |-> Some(today - 1)],
        [season |-> 1, number |-> Some(3), airdate |-> Some(today + 1)] >>

\* ShowDetail.tsx 60-63
isEpisodeReleased(ep, c) ==
  /\ ep.airdate # Null
  /\ ParseLocalMidnight(Val(ep.airdate)) <= NowInstant(c)

\* lib/watch-progress.ts episodeKey: "S<season>E<episode>"
episodeKey(season, episode) == <<"S", season, "E", episode>>

\* ShowDetail.tsx 289-299: the keys of the released, numbered episodes.
ReleasedKeys(c) ==
  LET episodes == DetailEpisodes(c)
  IN { episodeKey(episodes[i].season, Val(episodes[i].number)) :
         i \in { n \in 1..Len(episodes) :
                   /\ isEpisodeReleased(episodes[n], c)
                   /\ episodes[n].number # Null } }

\* ShowDetail.tsx 216-224, 289-296: released.map((e) => ({ season, episode })).
ReleasedEpisodes(c) ==
  LET episodes == DetailEpisodes(c)
  IN { Ep(episodes[n].season, Val(episodes[n].number)) :
         n \in { k \in 1..Len(episodes) :
                   /\ isEpisodeReleased(episodes[k], c)
                   /\ episodes[k].number # Null } }

\* user_shows after upsert(..., { onConflict: "user_id,tvmaze_show_id" }):
\* the row of the show is written whatever it held, or inserted.
UpsertStatus(st, id, newStatus) ==
  [ i \in DOMAIN st \cup {id} |-> IF i = id THEN newStatus ELSE st[i] ]

\* ShowDetail.tsx 262-266, 611: the handler up to its first await.  The
\* sheet that offers the statuses opens only once the tracking status is
\* loaded and while no status change or removal is running.
HssStart ==
  /\ hss.at \in {"idle", "done", "failed"}
  /\ ~isMutating
  /\ trackingStatus \notin {"undefined"}
  /\ \E newStatus \in Statuses :
       /\ hss' = [at |-> "getUser", prev |-> trackingStatus, newStatus |-> newStatus]
       /\ trackingStatus' = newStatus
  /\ isMutating' = TRUE
  /\ UNCHANGED <<passVars, wpVars, loadVars, otherVars, stored, bulkMarkingRef, watchedSet, watchStore>>

\* ShowDetail.tsx 269-281, 305-309: auth.getUser() resolved; without a user
\* the handler throws, restores the status and ends; with one it sends the
\* upsert.
HssGetUser ==
  /\ hss.at = "getUser"
  /\ \E user \in BOOLEAN :
       IF user
       THEN /\ hss' = [hss EXCEPT !.at = "upsert"]
            /\ UNCHANGED <<trackingStatus, isMutating>>
       ELSE /\ hss' = [hss EXCEPT !.at = "failed"]
            /\ trackingStatus' = hss.prev
            /\ isMutating' = FALSE
  /\ UNCHANGED <<passVars, wpVars, loadVars, otherVars, stored, bulkMarkingRef, watchedSet, watchStore>>

\* ShowDetail.tsx 271-309: the upsert resolved.  An error restores the
\* status.  Otherwise the row is written; setting completed raises
\* bulkMarkingRef and, with released episodes, awaits markAllWatched.
HssUpsert ==
  /\ hss.at = "upsert"
  /\ \E error \in BOOLEAN :
       IF error
       THEN /\ hss' = [hss EXCEPT !.at = "failed"]
            /\ trackingStatus' = hss.prev
            /\ isMutating' = FALSE
            /\ UNCHANGED <<stored, bulkMarkingRef>>
       ELSE /\ stored' = UpsertStatus(stored, 1, hss.newStatus)
            /\ IF hss.newStatus = "completed" /\ ReleasedKeys(clock) # {}
               THEN /\ bulkMarkingRef' = TRUE
                    /\ hss' = [hss EXCEPT !.at = "bulk"]
                    /\ UNCHANGED isMutating
               ELSE /\ bulkMarkingRef' =
                         IF hss.newStatus = "completed" THEN FALSE ELSE bulkMarkingRef
                    /\ hss' = [hss EXCEPT !.at = "done"]
                    /\ isMutating' = FALSE
            /\ UNCHANGED trackingStatus
  /\ UNCHANGED <<passVars, wpVars, loadVars, otherVars, watchedSet, watchStore>>

\* Variant: an error of the bulk mark leaves the new status on the page.
HssBulkKeepsStatus ==
  /\ hss.at = "bulk"
  /\ \E error \in BOOLEAN :
       IF error
       THEN /\ hss' = [hss EXCEPT !.at = "failed"]
            /\ UNCHANGED <<trackingStatus, bulkMarkingRef, watchedSet, watchStore>>
       ELSE /\ hss' = [hss EXCEPT !.at = "done"]
            /\ watchStore' = UpsertMarks(watchStore, 1, ReleasedEpisodes(clock))
            /\ watchedSet' = ReleasedKeys(clock)
            /\ bulkMarkingRef' = FALSE
            /\ UNCHANGED trackingStatus
  /\ isMutating' = FALSE
  /\ UNCHANGED <<passVars, wpVars, loadVars, otherVars, stored>>

\* ShowDetail.tsx 293-309 and lib/watch-progress.ts markAllWatched: the
\* batch upsert resolved.  On an error the handler throws past the reset of
\* bulkMarkingRef and restores the status; otherwise the marks are stored
\* and shown.
HssBulk ==
  /\ hss.at = "bulk"
  /\ \E error \in BOOLEAN :
       IF error
       THEN /\ hss' = [hss EXCEPT !.at = "failed"]
            /\ trackingStatus' = hss.prev
            /\ UNCHANGED <<bulkMarkingRef, watchedSet, watchStore>>
       ELSE /\ hss' = [hss EXCEPT !.at = "done"]
            /\ watchStore' = UpsertMarks(watchStore, 1, ReleasedEpisodes(clock))
            /\ watchedSet' = ReleasedKeys(clock)
            /\ bulkMarkingRef' = FALSE
            /\ UNCHANGED trackingStatus
  /\ isMutating' = FALSE
  /\ UNCHANGED <<passVars, wpVars, loadVars, otherVars, stored>>

\* user_shows after delete().eq("tvmaze_show_id", id).eq("user_id", ..).
DeleteStatus(st, id) == [ i \in DOMAIN st \ {id} |-> st[i] ]

\* ShowDetail.tsx 312-316, 1026: handleRemove up to its first await; the
\* sheet offers it for a tracked show.
RemoveStart ==
  /\ hr.at \in {"idle", "done", "failed"}
  /\ ~isMutating
  /\ trackingStatus \notin {"undefined", "null"}
  /\ hr' = [at |-> "getUser", prev |-> trackingStatus]
  /\ trackingStatus' = "null"
  /\ isMutating' = TRUE
  /\ UNCHANGED <<passVars, wpVars, loadVars, searchVars, extraVars, stored, bulkMarkingRef,
                 watchedSet, watchStore, hss, toggles, watchMutating>>

\* ShowDetail.tsx 317-320, 329-333: auth.getUser() resolved.
RemoveGetUser ==
  /\ hr.at = "getUser"
  /\ \E user \in BOOLEAN :
       IF user
       THEN /\ hr' = [hr EXCEPT !.at = "delete"]
            /\ UNCHANGED <<trackingStatus, isMutating>>
       ELSE /\ hr' = [hr EXCEPT !.at = "failed"]
            /\ trackingStatus' = hr.prev
            /\ isMutating' = FALSE
  /\ UNCHANGED <<passVars, wpVars, loadVars, searchVars, extraVars, stored, bulkMarkingRef,
                 watchedSet, watchStore, hss, toggles, watchMutating>>

\* ShowDetail.tsx 321-333: the delete resolved; the row is gone and the
\* watched set is cleared, or the status is restored.
RemoveDelete ==
  /\ hr.at = "delete"
  /\ \E error \in BOOLEAN :
       IF error
       THEN /\ hr' = [hr EXCEPT !.at = "failed"]
            /\ trackingStatus' = hr.prev
            /\ UNCHANGED <<stored, watchedSet>>
       ELSE /\ hr' = [hr EXCEPT !.at = "done"]
            /\ stored' = DeleteStatus(stored, 1)
            /\ watchedSet' = {}
            /\ UNCHANGED trackingStatus
  /\ isMutating' = FALSE
  /\ UNCHANGED <<passVars, wpVars, loadVars, searchVars, extraVars, bulkMarkingRef,
                 watchStore, hss, toggles, watchMutating>>

\* The page of show 1 has loaded the tracking status: the stored one, or
\* none for an untracked show.
InitStatus ==
  /\ pc = "idle"
  /\ userShows = <<>>
  /\ clock \in ListClocks
  /\ metaFetch = <<>>
  /\ watchFetch = [data |-> Null]
  /\ rendered = <<>>
  /\ updateCmds = <<>>
  /\ writes = <<>>
  /\ stored \in { <<>> } \cup { <<st>> : st \in Statuses }
  /\ errorLog = 0
  /\ fetched = <<>>
  /\ watchQueries = 0
  /\ trackingStatus = IF 1 \in DOMAIN stored THEN stored[1] ELSE "null"
  /\ isMutating = FALSE
  /\ bulkMarkingRef = FALSE
  /\ watchedSet = {}
  /\ watchStore = {}
  /\ hss = HssIdle
  /\ wp = WpIdle
  /\ wpPrev = WpIdle
  /\ LoadClosed
  /\ OtherClosed

NextStatus ==
  \/ HssStart \/ HssGetUser \/ HssUpsert \/ HssBulk
  \/ RemoveStart \/ RemoveGetUser \/ RemoveDelete

SpecStatus == InitStatus /\ [][NextStatus]_vars

\* ------------------------- the load effect of the show-detail page ----

\* ShowDetail.tsx 216-224: the released, numbered episodes in the order of
\* the episodes prop, as { season, episode }.
ReleasedSeq(c) ==
  LET Released(e) == isEpisodeReleased(e, c) /\ e.number # Null
      sel == SelectSeq(DetailEpisodes(c), Released)
  IN [ k \in 1..Len(sel) |-> Ep(sel[k].season, Val(sel[k].number)) ]

\* part_009 645-647: the rows of a show as a Set of episode keys.
KeysOf(store, showId) ==
  { episodeKey(r.season, r.episode) :
      r \in { x \in store : x.tvmaze_show_id = showId } }

\* The page is opened again in the same session: the component mounts
\* with its initial state (ShowDetail.tsx 157-168) and its effects are due.
PageOpen ==
  /\ trackingStatus # "undefined"
  /\ load.at = "idle"
  /\ ~loadDue
  /\ hss.at \in {"idle", "done", "failed"}
  /\ auto.at \in {"idle", "done", "failed"}
  /\ Len(backfillLog) < MaxBackfills
  /\ trackingStatus' = "undefined"
  /\ isMutating' = FALSE
  /\ bulkMarkingRef' = FALSE
  /\ watchedSet' = {}
  /\ watchLoading' = TRUE
  /\ loadDue' = TRUE
  /\ hss' = HssIdle
  /\ UNCHANGED <<passVars, stored, wpVars, otherVars, watchStore, load, backfillLog>>

\* ShowDetail.tsx 189-205: the mount check settled; without a user, or
\* without a row (or an answer) of user_shows, the show is untracked.
MountCheck ==
  /\ trackingStatus = "undefined"
  /\ ~loadDue
  /\ \E user \in BOOLEAN, data \in BOOLEAN :
       trackingStatus' = IF user /\ data /\ 1 \in DOMAIN stored
                         THEN stored[1] ELSE "null"
  /\ loadDue' = TRUE
  /\ UNCHANGED <<passVars, stored, wpVars, otherVars, isMutating, bulkMarkingRef,
                 watchedSet, watchStore, hss, watchLoading, load, backfillLog>>

\* ShowDetail.tsx 207-214: the effect is evaluated; for a tracked show it
\* starts fetchWatchedEpisodes.
LoadEffect ==
  /\ loadDue
  /\ load.at = "idle"
  /\ loadDue' = FALSE
  /\ IF trackingStatus \in {"undefined", "null"}
     THEN /\ watchLoading' = FALSE
          /\ UNCHANGED load
     ELSE /\ watchLoading' = TRUE
          /\ load' = [at |-> "fetch", status |-> trackingStatus, fetched |-> {}]
  /\ UNCHANGED <<passVars, stored, wpVars, otherVars, detailVars, backfillLog>>

\* part_009 633-651 and ShowDetail.tsx 214-236: fetchWatchedEpisodes
\* settled.  Without a user it rejects and the page shows no marks; on a
\* query error it resolves with an empty Set.  A completed show with an
\* empty Set and released episodes goes on to markAllWatched.
LoadFetched ==
  /\ load.at = "fetch"
  /\ \E outcome \in {"nouser", "error", "ok"} :
       LET set == IF outcome = "ok" THEN KeysOf(watchStore, 1) ELSE {}
       IN IF outcome = "nouser"
          THEN /\ watchedSet' = {}
               /\ watchLoading' = FALSE
               /\ load' = LoadIdle
          ELSE IF /\ load.status = "completed"
                  /\ set = {}
                  /\ Len(ReleasedSeq(clock)) > 0
               THEN /\ load' = [load EXCEPT !.at = "backfillUser", !.fetched = set]
                    /\ UNCHANGED <<watchedSet, watchLoading>>
               ELSE /\ watchedSet' = set
                    /\ watchLoading' = FALSE
                    /\ load' = LoadIdle
  /\ UNCHANGED <<passVars, stored, wpVars, otherVars, trackingStatus, isMutating,
                 bulkMarkingRef, watchStore, hss, loadDue, backfillLog>>

\* part_009 618-625, 698-699: getUser() of markAllWatched settled; without
\* a user it throws and the effect's catch shows no marks.
LoadBackfillUser ==
  /\ load.at = "backfillUser"
  /\ \E user \in BOOLEAN :
       IF user
       THEN /\ load' = [load EXCEPT !.at = "backfillWrite"]
            /\ UNCHANGED <<watchedSet, watchLoading>>
       ELSE /\ watchedSet' = {}
            /\ watchLoading' = FALSE
            /\ load' = LoadIdle
  /\ UNCHANGED <<passVars, stored, wpVars, otherVars, trackingStatus, isMutating,
                 bulkMarkingRef, watchStore, hss, loadDue, backfillLog>>

\* ShowDetail.tsx 221-236: the upsert of markAllWatched settled; the page
\* shows the released episodes as watched, or none after an error.
LoadBackfillWrite ==
  /\ load.at = "backfillWrite"
  /\ \E error \in BOOLEAN :
       LET call == [WpIdle EXCEPT !.fn = "markAllWatched", !.showId = 1,
                                  !.eps = ReleasedSeq(clock), !.at = "write",
                                  !.before = watchStore, !.user = TRUE]
           r == markAllWatched(call, watchStore, error)
           ok == r.call.at = "returned"
       IN /\ watchStore' = r.store
          /\ backfillLog' = Append(backfillLog,
                                   [status |-> load.status, fetched |-> load.fetched,
                                    eps |-> call.eps, ok |-> ok])
          /\ watchedSet' = IF ok THEN ReleasedKeys(clock) ELSE {}
  /\ watchLoading' = FALSE
  /\ load' = LoadIdle
  /\ UNCHANGED <<passVars, stored, wpVars, otherVars, trackingStatus, isMutating,
                 bulkMarkingRef, hss, loadDue>>

\* The page of show 1 has just mounted; the show is untracked or tracked
\* with any status, and any of its released episodes are marked.
InitLoad ==
  /\ pc = "idle"
  /\ userShows = <<>>
  /\ clock \in ListClocks
  /\ metaFetch = <<>>
  /\ watchFetch = [data |-> Null]
  /\ rendered = <<>>
  /\ updateCmds = <<>>
  /\ writes = <<>>
  /\ stored \in { <<>> } \cup { <<st>> : st \in Statuses }
  /\ errorLog = 0
  /\ fetched = <<>>
  /\ watchQueries = 0
  /\ trackingStatus = "undefined"
  /\ isMutating = FALSE
  /\ bulkMarkingRef = FALSE
  /\ watchedSet = {}
  /\ watchStore \in SUBSET { MarkRow(1, e) : e \in ReleasedEpisodes(clock) }
  /\ hss = HssIdle
  /\ wp = WpIdle
  /\ wpPrev = WpIdle
  /\ watchLoading = TRUE
  /\ loadDue = TRUE
  /\ load = LoadIdle
  /\ backfillLog = <<>>
  /\ OtherClosed

NextLoad ==
  \/ PageOpen \/ MountCheck \/ LoadEffect
  \/ LoadFetched \/ LoadBackfillUser \/ LoadBackfillWrite

SpecLoad == InitLoad /\ [][NextLoad]_vars

\* ------------------------------- the toggles of the show-detail page ----

\* A call of lib/watch-progress.ts as a toggle makes it.
ToggleCall(fn, eps) ==
  [WpIdle EXCEPT !.fn = fn, !.showId = 1, !.eps = eps, !.at = "getUser",
                 !.before = {}]

ToggleKeys(t) == { episodeKey(e.season, e.episode) : e \in SeqRange(t.call.eps) }

\* ShowDetail.tsx 338-352, 871-873: toggleEpisode up to its await.  The
\* button is shown for a tracked show once the watch data is loaded and is
\* disabled for an unreleased episode and while a toggle of the episode
\* runs; wasWatched is read from the watched set on the page.
ToggleEpisodeStart ==
  /\ trackingStatus \notin {"undefined", "null"}
  /\ ~watchLoading
  /\ Cardinality(toggles) < MaxToggles
  /\ \E e \in ReleasedEpisodes(clock) :
       LET key == episodeKey(e.season, e.episode)
           wasWatched == key \in watchedSet
           t == [kind |-> "episode", wasWatched |-> wasWatched,
                 call |-> ToggleCall(IF wasWatched THEN "unmarkEpisodeWatched"
                                     ELSE "markEpisodeWatched", <<e>>)]
       IN /\ key \notin watchMutating
          /\ watchedSet' = IF wasWatched THEN watchedSet \ {key} ELSE watchedSet \cup {key}
          /\ watchMutating' = watchMutating \cup {key}
          /\ toggles' = toggles \cup {t}
  /\ UNCHANGED <<passVars, stored, wpVars, loadVars, searchVars, extraVars,
                 trackingStatus, isMutating, bulkMarkingRef, watchStore, hss, hr>>

\* ShowDetail.tsx 377-398, 773: toggleSeasonWatched up to its await, for
\* the season of the released episodes; nothing disables its button while
\* a toggle runs.
ToggleSeasonStart ==
  /\ trackingStatus \notin {"undefined", "null"}
  /\ ~watchLoading
  /\ Cardinality(toggles) < MaxToggles
  /\ Len(ReleasedSeq(clock)) > 0
  /\ LET allWatched == ReleasedKeys(clock) \subseteq watchedSet
         t == [kind |-> "season", wasWatched |-> allWatched,
               call |-> ToggleCall(IF allWatched THEN "unmarkSeasonWatched"
                                   ELSE "markSeasonWatched", ReleasedSeq(clock))]
     IN /\ t \notin toggles
        /\ watchedSet' = IF allWatched THEN watchedSet \ ReleasedKeys(clock)
                         ELSE watchedSet \cup ReleasedKeys(clock)
        /\ toggles' = toggles \cup {t}
  /\ UNCHANGED <<passVars, stored, wpVars, loadVars, searchVars, extraVars,
                 trackingStatus, isMutating, bulkMarkingRef, watchStore, hss, hr,
                 watchMutating>>

\* The call of a toggle went on by one await: t is the toggle, c its call
\* afterwards.  ShowDetail.tsx 358-372: toggleEpisode rolls back after a
\* throw and in any case enables the button again.  ShowDetail.tsx 413-416:
\* toggleSeasonWatched starts fetchWatchedEpisodes after a throw.
ToggleAfter(t, c) ==
  IF c.at = "write"
  THEN /\ toggles' = (toggles \ {t}) \cup {[t EXCEPT !.call = c]}
       /\ UNCHANGED <<watchedSet, watchMutating>>
  ELSE IF t.kind = "episode"
  THEN /\ toggles' = toggles \ {t}
       /\ watchMutating' = watchMutating \ ToggleKeys(t)
       /\ watchedSet' = IF c.at = "returned" THEN watchedSet
                        ELSE IF t.wasWatched THEN watchedSet \cup ToggleKeys(t)
                        ELSE watchedSet \ ToggleKeys(t)
  ELSE /\ toggles' = IF c.at = "returned" THEN toggles \ {t}
                     ELSE (toggles \ {t}) \cup {[t EXCEPT !.call = [c EXCEPT !.at = "refetch"]]}
       /\ UNCHANGED <<watchedSet, watchMutating>>

\* part_009 618-625: getUser() of a toggle's call settled.
ToggleGetUser ==
  /\ \E t \in toggles, user \in BOOLEAN :
       /\ t.call.at = "getUser"
       /\ ToggleAfter(t, [t.call EXCEPT !.user = user,
                                        !.at = IF user THEN "write" ELSE "threw"])
  /\ UNCHANGED <<passVars, stored, wpVars, loadVars, searchVars, extraVars,
                 trackingStatus, isMutating, bulkMarkingRef, watchStore, hss, hr>>

\* The awaited store write of a toggle's call settled.
ToggleWrite ==
  /\ \E t \in toggles, error \in BOOLEAN :
       /\ t.call.at = "write"
       /\ LET r == WriteStep(t.call, watchStore, error)
          IN /\ watchStore' = r.store
             /\ ToggleAfter(t, r.call)
  /\ UNCHANGED <<passVars, stored, wpVars, loadVars, searchVars, extraVars,
                 trackingStatus, isMutating, bulkMarkingRef, hss, hr>>

\* ShowDetail.tsx 415 and part_009 629-651: the fetchWatchedEpisodes of a
\* failed season toggle settled.  Without a user it rejects and nothing
\* handles it; a query error gives an empty Set.
ToggleRefetch ==
  /\ \E t \in toggles, outcome \in {"nouser", "error", "ok"} :
       /\ t.call.at = "refetch"
       /\ toggles' = toggles \ {t}
       /\ watchedSet' = CASE outcome = "nouser" -> watchedSet
                           [] outcome = "error" -> {}
                           [] outcome = "ok" -> KeysOf(watchStore, 1)
  /\ UNCHANGED <<passVars, stored, wpVars, loadVars, searchVars, extraVars,
                 trackingStatus, isMutating, bulkMarkingRef, watchStore, hss, hr,
                 watchMutating>>

\* The page of a tracked show has loaded its watch data: the watched set
\* holds the marks of the store.
InitToggle ==
  /\ pc = "idle"
  /\ userShows = <<>>
  /\ clock \in ListClocks
  /\ metaFetch = <<>>
  /\ watchFetch = [data |-> Null]
  /\ rendered = <<>>
  /\ updateCmds = <<>>
  /\ writes = <<>>
  /\ stored = <<"watching">>
  /\ errorLog = 0
  /\ fetched = <<>>
  /\ watchQueries = 0
  /\ trackingStatus = stored[1]
  /\ isMutating = FALSE
  /\ bulkMarkingRef = FALSE
  /\ watchStore \in SUBSET { MarkRow(1, e) : e \in ReleasedEpisodes(clock) }
  /\ watchedSet = KeysOf(watchStore, 1)
  /\ hss = HssIdle
  /\ wp = WpIdle
  /\ wpPrev = WpIdle
  /\ watchLoading = FALSE
  /\ loadDue = FALSE
  /\ load = LoadIdle
  /\ backfillLog = <<>>
  /\ OtherClosed

NextToggle ==
  \/ ToggleEpisodeStart \/ ToggleSeasonStart
  \/ ToggleGetUser \/ ToggleWrite \/ ToggleRefetch

SpecToggle == InitToggle /\ [][NextToggle]_vars

\* ------------------- the auto-complete effect of the show-detail page ----

\* ShowDetail.tsx 423-442: the effect goes on to handleStatusSelect.
AutoDue ==
  /\ trackingStatus \notin {"undefined", "null"}
  /\ ~watchLoading
  /\ watchedSet # {}
  /\ ~bulkMarkingRef
  /\ trackingStatus # "completed"
  /\ LET releasedEps == ReleasedKeys(clock)
     IN releasedEps # {} /\ releasedEps \subseteq watchedSet

\* ShowDetail.tsx 422-445, 262-266: the effect runs and calls
\* handleStatusSelect("completed"), which runs up to its first await.
AutoStart ==
  /\ AutoDue
  /\ auto.at \in {"idle", "done", "failed"}
  /\ Len(autoLog) < MaxAutoChanges
  /\ auto' = [at |-> "getUser", prev |-> trackingStatus, newStatus |-> "completed"]
  /\ trackingStatus' = "completed"
  /\ isMutating' = TRUE
  /\ UNCHANGED <<passVars, stored, wpVars, loadVars, pageVars, searchVars,
                 bulkMarkingRef, watchedSet, watchStore, hss,
                 rawSeasons, seasonMeta, autoLog>>

\* ShowDetail.tsx 269-270, 305-309: auth.getUser() of that call resolved.
AutoGetUser ==
  /\ auto.at = "getUser"
  /\ \E user \in BOOLEAN :
       IF user
       THEN /\ auto' = [auto EXCEPT !.at = "upsert"]
            /\ UNCHANGED <<trackingStatus, isMutating>>
       ELSE /\ auto' = [auto EXCEPT !.at = "failed"]
            /\ trackingStatus' = auto.prev
            /\ isMutating' = FALSE
  /\ UNCHANGED <<passVars, stored, wpVars, loadVars, pageVars, searchVars,
                 bulkMarkingRef, watchedSet, watchStore, hss,
                 rawSeasons, seasonMeta, autoLog>>

\* Variant: the call of the effect stores nothing.
AutoUpsertKeepsStore ==
  /\ auto.at = "upsert"
  /\ \E error \in BOOLEAN :
       IF error
       THEN /\ auto' = [auto EXCEPT !.at = "failed"]
            /\ trackingStatus' = auto.prev
            /\ isMutating' = FALSE
            /\ UNCHANGED bulkMarkingRef
       ELSE /\ bulkMarkingRef' = TRUE
            /\ auto' = [auto EXCEPT !.at = "bulk"]
            /\ UNCHANGED <<trackingStatus, isMutating>>
  /\ UNCHANGED <<passVars, stored, wpVars, loadVars, pageVars, searchVars,
                 watchedSet, watchStore, hss, rawSeasons, seasonMeta, autoLog>>

\* ShowDetail.tsx 271-299, 305-309: the upsert of that call resolved; the
\* effect only starts the call when released episodes exist, so a stored
\* status is followed by the bulk mark.
AutoUpsert ==
  /\ auto.at = "upsert"
  /\ \E error \in BOOLEAN :
       IF error
       THEN /\ auto' = [auto EXCEPT !.at = "failed"]
            /\ trackingStatus' = auto.prev
            /\ isMutating' = FALSE
            /\ UNCHANGED <<stored, bulkMarkingRef, autoLog>>
       ELSE /\ stored' = UpsertStatus(stored, 1, "completed")
            /\ autoLog' = autoLog \o StatusChanges("autoComplete", stored,
                                                   UpsertStatus(stored, 1, "completed"), 1)
            /\ bulkMarkingRef' = TRUE
            /\ auto' = [auto EXCEPT !.at = "bulk"]
            /\ UNCHANGED <<trackingStatus, isMutating>>
  /\ UNCHANGED <<passVars, wpVars, loadVars, pageVars, searchVars,
                 watchedSet, watchStore, hss, rawSeasons, seasonMeta>>

\* ShowDetail.tsx 293-309: markAllWatched of that call settled.
AutoBulk ==
  /\ auto.at = "bulk"
  /\ \E error \in BOOLEAN :
       IF error
       THEN /\ auto' = [auto EXCEPT !.at = "failed"]
            /\ trackingStatus' = auto.prev
            /\ UNCHANGED <<bulkMarkingRef, watchedSet, watchStore>>
       ELSE /\ auto' = [auto EXCEPT !.at = "done"]
            /\ watchStore' = UpsertMarks(watchStore, 1, ReleasedEpisodes(clock))
            /\ watchedSet' = ReleasedKeys(clock)
            /\ bulkMarkingRef' = FALSE
            /\ UNCHANGED trackingStatus
  /\ isMutating' = FALSE
  /\ UNCHANGED <<passVars, stored, wpVars, loadVars, pageVars, searchVars,
                 hss, rawSeasons, seasonMeta, autoLog>>

\* ------------------------- auto-complete on a loaded page, writes succeed ----
\* The page of a show tracked as watching or completed, with its watch data
\* loaded.  The user changes the status between the two and toggles one
\* episode at a time; getUser() and the writes of user_shows and of the
\* bulk mark succeed.  React runs the auto-complete effect after the render
\* that changed its dependencies, before any later event or settled promise
\* is handled: while the effect is due nothing else runs.

CompleteStatuses == {"watching", "completed"}

EffectPending == AutoDue /\ auto.at \in {"idle", "done", "failed"}

\* The user picks a status in the sheet; the last automatic change that is
\* followed is left to the effect.
CompleteSelect ==
  /\ ~EffectPending
  /\ Len(autoLog) + 1 < MaxAutoChanges
  /\ HssStart
  /\ hss'.newStatus \in CompleteStatuses

CompleteHssGetUser == ~EffectPending /\ HssGetUser /\ hss'.at # "failed"
CompleteHssUpsert == ~EffectPending /\ HssUpsert /\ hss'.at # "failed"
CompleteHssBulk == ~EffectPending /\ HssBulk /\ hss'.at # "failed"
CompleteAutoGetUser == ~EffectPending /\ AutoGetUser /\ auto'.at # "failed"
CompleteAutoUpsert == ~EffectPending /\ AutoUpsert /\ auto'.at # "failed"
CompleteAutoBulk == ~EffectPending /\ AutoBulk /\ auto'.at # "failed"
CompleteToggleEpisode == ~EffectPending /\ toggles = {} /\ ToggleEpisodeStart
CompleteToggleGetUser == ~EffectPending /\ ToggleGetUser
CompleteToggleWrite == ~EffectPending /\ ToggleWrite

InitComplete ==
  /\ pc = "idle"
  /\ userShows = <<>>
  /\ clock \in ListClocks
  /\ metaFetch = <<>>
  /\ watchFetch = [data |-> Null]
  /\ rendered = <<>>
  /\ updateCmds = <<>>
  /\ writes = <<>>
  /\ stored \in { <<st>> : st \in CompleteStatuses }
  /\ errorLog = 0
  /\ fetched = <<>>
  /\ watchQueries = 0
  /\ trackingStatus = stored[1]
  /\ isMutating = FALSE
  /\ bulkMarkingRef = FALSE
  /\ watchStore \in SUBSET { MarkRow(1, e) : e \in ReleasedEpisodes(clock) }
  /\ watchedSet = KeysOf(watchStore, 1)
  /\ hss = HssIdle
  /\ wp = WpIdle
  /\ wpPrev = WpIdle
  /\ watchLoading = FALSE
  /\ loadDue = FALSE
  /\ load = LoadIdle
  /\ backfillLog = <<>>
  /\ OtherClosed

NextComplete ==
  \/ AutoStart
  \/ CompleteSelect \/ CompleteHssGetUser \/ CompleteHssUpsert \/ CompleteHssBulk
  \/ CompleteAutoGetUser \/ CompleteAutoUpsert \/ CompleteAutoBulk
  \/ CompleteToggleEpisode \/ CompleteToggleGetUser \/ CompleteToggleWrite

SpecComplete == InitComplete /\ [][NextComplete]_vars

\* The effect runs once it is due, and every pending promise settles; the
\* user need not act.
LiveComplete ==
  /\ SpecComplete
  /\ WF_vars(AutoStart)
  /\ WF_vars(CompleteHssGetUser) /\ WF_vars(CompleteHssUpsert) /\ WF_vars(CompleteHssBulk)
  /\ WF_vars(CompleteAutoGetUser) /\ WF_vars(CompleteAutoUpsert) /\ WF_vars(CompleteAutoBulk)
  /\ WF_vars(CompleteToggleGetUser) /\ WF_vars(CompleteToggleWrite)

\* ---------------- enrichment passes and page loads without user action ----

\* part_004 (DashboardPage): the dashboard is rendered again; it reads the
\* user's rows and calls enrichUserShows on them.
DashboardRead ==
  /\ pc = "returned"
  /\ \A k \in 1..Len(writes) : writes[k] # "pending"
  /\ Len(autoLog) < MaxAutoChanges
  /\ errorLog < MaxAutoChanges
  /\ userShows' = [ i \in 1..Len(stored) |-> Show(i, stored[i]) ]
  /\ pc' = "idle"
  /\ metaFetch' = <<>>
  /\ watchFetch' = [data |-> Null]
  /\ rendered' = <<>>
  /\ updateCmds' = <<>>
  /\ writes' = <<>>
  /\ fetched' = <<>>
  /\ watchQueries' = 0
  /\ UNCHANGED <<clock, errorLog, stored, detailVars, wpVars, loadVars, otherVars>>

\* The metadata of the show whose episodes the detail page lists: one
\* season, its last episode out yesterday, the next one due tomorrow.
AutoMetas(c) ==
  MetaSpace({ Some(Episode(1, Some(Today(c) + 1))) },
            { Some(Episode(1, Some(Today(c) - 1))) },
            {1},
            { Some(Today(c) - 8) })

\* enrich-shows.ts 49-52: the watch_progress rows of the user, or no data.
AutoWatch ==
  { [data |-> Null],
    [data |-> Some({ [tvmaze_show_id |-> r.tvmaze_show_id, season |-> r.season] :
                       r \in watchStore })] }

EnrichResumeAuto == EnrichResume(AutoMetas(clock), AutoWatch)

\* The user tracks one show with any status and any of its released
\* episodes marked; the dashboard has read the row and the detail page of
\* the show has just mounted.
InitAuto ==
  /\ pc = "idle"
  /\ stored \in { <<st>> : st \in Statuses }
  /\ userShows = <<Show(1, stored[1])>>
  /\ clock \in ListClocks
  /\ metaFetch = <<>>
  /\ watchFetch = [data |-> Null]
  /\ rendered = <<>>
  /\ updateCmds = <<>>
  /\ writes = <<>>
  /\ errorLog = 0
  /\ fetched = <<>>
  /\ watchQueries = 0
  /\ trackingStatus = "undefined"
  /\ isMutating = FALSE
  /\ bulkMarkingRef = FALSE
  /\ watchedSet = {}
  /\ watchStore \in SUBSET { MarkRow(1, e) : e \in ReleasedEpisodes(clock) }
  /\ hss = HssIdle
  /\ wp = WpIdle
  /\ wpPrev = WpIdle
  /\ watchLoading = TRUE
  /\ loadDue = TRUE
  /\ load = LoadIdle
  /\ backfillLog = <<>>
  /\ OtherClosed

NextAuto ==
  \/ DashboardRead \/ EnrichCall \/ EnrichResumeAuto \/ UpdateSettle
  \/ PageOpen \/ MountCheck \/ LoadEffect
  \/ LoadFetched \/ LoadBackfillUser \/ LoadBackfillWrite
  \/ AutoStart \/ AutoGetUser \/ AutoUpsert \/ AutoBulk

SpecAuto == InitAuto /\ [][NextAuto]_vars

\* ------------------------------------- the typed search (SearchView) ----

\* The texts the user types: letters and blanks.
Queries == UNION { [1..n -> {"a", " "}] : n \in 0..MaxQueryLen }

\* String.prototype.trim
RECURSIVE TrimStart(_)
TrimStart(q) ==
  IF q # <<>> /\ Head(q) = " " THEN TrimStart(Tail(q)) ELSE q

RECURSIVE TrimEnd(_)
TrimEnd(q) ==
  IF q # <<>> /\ q[Len(q)] = " " THEN TrimEnd(SubSeq(q, 1, Len(q) - 1)) ELSE q

trim(q) == TrimEnd(TrimStart(q))

\* SearchView.tsx 268-304: the user changes the text.  The cleanup of the
\* effect that ran for the old text clears its timer, then the effect runs
\* for the new text: a blank text shows nothing, any other sets a timer
\* of 300 ms.  A request already sent is left alone.
Type ==
  /\ \E q \in Queries :
       /\ q # query
       /\ query' = q
       /\ IF trim(q) = <<>>
          THEN /\ status' = "idle"
               /\ searchResults' = Null
               /\ debounceRef' = Null
          ELSE /\ status' = "loading"
               /\ debounceRef' = Some(trim(q))
               /\ UNCHANGED searchResults
  /\ UNCHANGED <<passVars, stored, detailVars, wpVars, loadVars, pageVars,
                 extraVars, inFlight>>

\* SearchView.tsx 280-282: the timer fires and the request is sent.
TimerFire ==
  /\ debounceRef # Null
  /\ inFlight' = inFlight \cup {Val(debounceRef)}
  /\ debounceRef' = Null
  /\ UNCHANGED <<passVars, stored, detailVars, wpVars, loadVars, pageVars,
                 extraVars, query, searchResults, status>>

\* SearchView.tsx 282-297: a request settled, with shows, with none, or
\* with an error; the callback sets what the page shows.
FetchSettle ==
  /\ \E q \in inFlight, outcome \in {"shows", "none", "error"} :
       /\ inFlight' = inFlight \ {q}
       /\ status' = CASE outcome = "shows" -> "success"
                       [] outcome = "none" -> "empty"
                       [] outcome = "error" -> "error"
       /\ searchResults' = IF outcome = "shows" THEN Some(q) ELSE Null
  /\ UNCHANGED <<passVars, stored, detailVars, wpVars, loadVars, pageVars,
                 extraVars, query, debounceRef>>

InitSearch ==
  /\ PassClosed
  /\ trackingStatus = "undefined"
  /\ isMutating = FALSE
  /\ bulkMarkingRef = FALSE
  /\ watchedSet = {}
  /\ watchStore = {}
  /\ hss = HssIdle
  /\ wp = WpIdle
  /\ wpPrev = WpIdle
  /\ LoadClosed
  /\ OtherClosed

NextSearch == Type \/ TimerFire \/ FetchSettle

SpecSearch == InitSearch /\ [][NextSearch]_vars

\* ------------------------------------ getShowSeasonMeta (lib/tmdb.ts) ----

\* One element of raw.seasons: season 0 holds the specials; air_date is
\* absent for a season that is announced without a date.
Season(n, d) == [season_number |-> n, air_date |-> d]

SeasonAirDates == {Null, Some(10), Some(20)}

\* The lists TMDB can answer with: each season number at most once.
SeasonLists ==
  UNION { { l \in [1..n -> { Season(k, d) : k \in 0..MaxSeason, d \in SeasonAirDates }] :
              \A i, j \in 1..n : i # j => l[i].season_number # l[j].season_number } :
          n \in 0..(MaxSeason + 1) }

\* tmdb.ts 390-391: .filter((s) => s.season_number > 0 && s.air_date)
FilterRegularDated(l) ==
  SelectSeq(l, LAMBDA x : x.season_number > 0 /\ x.air_date # Null)

\* tmdb.ts 392: .sort((a, b) => b.season_number - a.season_number), a stable
\* sort by insertion.
InsertSeason(x, sorted) ==
  LET after == { k \in 1..Len(sorted) : sorted[k].season_number >= x.season_number }
      n == IF after = {} THEN 0 ELSE SetMax(after)
  IN SubSeq(sorted, 1, n) \o <<x>> \o SubSeq(sorted, n + 1, Len(sorted))

RECURSIVE SortSeasonsDesc(_)
SortSeasonsDesc(l) ==
  IF l = <<>> THEN <<>>
  ELSE InsertSeason(l[Len(l)], SortSeasonsDesc(SubSeq(l, 1, Len(l) - 1)))

\* tmdb.ts 386-396: latestSeasonAirDate of a raw answer.
latestSeasonAirDate(seasons) ==
  IF seasons # Null /\ Len(Val(seasons)) > 0
  THEN LET regularSeasons == SortSeasonsDesc(FilterRegularDated(Val(seasons)))
       IN IF Len(regularSeasons) > 0 THEN regularSeasons[1].air_date ELSE Null
  ELSE Null

\* tmdb.ts 381-420: the call settles; a failed fetch is caught and gives
\* null.
GetShowSeasonMeta ==
  /\ seasonMeta.at = "pending"
  /\ \E threw \in BOOLEAN :
       seasonMeta' = IF threw
                     THEN [at |-> "null", latestSeasonAirDate |-> Null]
                     ELSE [at |-> "ok", latestSeasonAirDate |-> latestSeasonAirDate(rawSeasons)]
  /\ UNCHANGED <<passVars, stored, detailVars, wpVars, loadVars, pageVars,
                 searchVars, rawSeasons, auto, autoLog>>

\* A call of getShowSeasonMeta is pending on some answer of TMDB.
InitSeasons ==
  /\ PassClosed
  /\ trackingStatus = "undefined"
  /\ isMutating = FALSE
  /\ bulkMarkingRef = FALSE
  /\ watchedSet = {}
  /\ watchStore = {}
  /\ hss = HssIdle
  /\ wp = WpIdle
  /\ wpPrev = WpIdle
  /\ LoadClosed
  /\ PageClosed
  /\ SearchClosed
  /\ rawSeasons \in {Null} \cup { Some(l) : l \in SeasonLists }
  /\ seasonMeta = [at |-> "pending", latestSeasonAirDate |-> Null]

NextSeasons == GetShowSeasonMeta

SpecSeasons == InitSeasons /\ [][NextSeasons]_vars

\* -------------------- an enrichment pass and a status change together ----
\* The dashboard has read the user's one show; the detail page of that show
\* is open in the same session and has loaded its tracking status.

InitRace ==
  /\ pc = "idle"
  /\ userShows \in ShowLists(1)
  /\ clock \in ListClocks
  /\ metaFetch = <<>>
  /\ watchFetch = [data |-> Null]
  /\ rendered = <<>>
  /\ updateCmds = <<>>
  /\ writes = <<>>
  /\ stored = [i \in 1..Len(userShows) |-> userShows[i].status]
  /\ errorLog = 0
  /\ fetched = <<>>
  /\ watchQueries = 0
  /\ trackingStatus = userShows[1].status
  /\ isMutating = FALSE
  /\ bulkMarkingRef = FALSE
  /\ watchedSet = {}
  /\ watchStore = {}
  /\ hss = HssIdle
  /\ wp = WpIdle
  /\ wpPrev = WpIdle
  /\ LoadClosed
  /\ OtherClosed

NextRace ==
  \/ EnrichCall \/ EnrichResumeList \/ UpdateSettle
  \/ HssStart \/ HssGetUser \/ HssUpsert \/ HssBulk

SpecRace == InitRace /\ [][NextRace]_vars

\* =============================================================== claims ==

Returned == pc = "returned" /\ Len(userShows) > 0

HasEntry(id) == \E j \in 1..Len(rendered) : rendered[j].id = id
EntryOf(id) == rendered[CHOOSE j \in 1..Len(rendered) : rendered[j].id = id]
PositionOf(id) == CHOOSE j \in 1..Len(rendered) : rendered[j].id = id

\* The ids named by the update commands issued so far.
NamedIds ==
  UNION { { updateCmds[n].ids[k] : k \in 1..Len(updateCmds[n].ids) } :
          n \in 1..Len(updateCmds) }

\* The conditions of the claims, stated on what the pass was given: the
\* settled metadata of show i, the watch rows delivered and the clock.
MetaAvailable(i) == metaFetch[i].status = "fulfilled" /\ metaFetch[i].value # Null
MetaGiven(i) == Val(metaFetch[i].value)
NowAt == InstantOf(clock)
MidnightOf(day) == day * TicksPerDay

NextAirs(i) ==
  /\ MetaAvailable(i)
  /\ MetaGiven(i).nextEpisode # Null
  /\ Val(MetaGiven(i).nextEpisode).airDate # Null
NextAirInstant(i) == MidnightOf(Val(Val(MetaGiven(i).nextEpisode).airDate))
NextSeason(i) == Val(MetaGiven(i).nextEpisode).seasonNumber
LastSeason(i) == Val(MetaGiven(i).lastEpisode).seasonNumber

UpcomingFor(i) ==
  /\ NextAirs(i)
  /\ NextAirInstant(i) > NowAt
  /\ MetaGiven(i).lastEpisode # Null
  /\ NextSeason(i) = LastSeason(i)

SoonFor(i) ==
  /\ NextAirs(i)
  /\ MetaGiven(i).lastEpisode # Null
  /\ NextSeason(i) > LastSeason(i)
  /\ NowAt < NextAirInstant(i)
  /\ NextAirInstant(i) <= ThreeMonthsLater(clock)

\* Highest season among the delivered watch rows of show i, 0 without any.
MaxMarkedSeason(i) ==
  LET rows == IF watchFetch.data = Null THEN {}
              ELSE { r \in Val(watchFetch.data) :
                       r.tvmaze_show_id = userShows[i].tvmaze_show_id }
  IN IF rows = {} THEN 0 ELSE SetMax({ r.season : r \in rows })

OutFor(i) ==
  /\ MetaAvailable(i)
  /\ ~SoonFor(i)
  /\ MetaGiven(i).latestSeasonAirDate # Null
  /\ MetaGiven(i).numberOfSeasons > 1
  /\ MaxMarkedSeason(i) < MetaGiven(i).numberOfSeasons
  /\ ThreeMonthsAgo(clock) <= MidnightOf(Val(MetaGiven(i).latestSeasonAirDate))
  /\ MidnightOf(Val(MetaGiven(i).latestSeasonAirDate)) <= NowAt

\* C1: every show handed to enrichUserShows with status completed is
\* returned with status watching if and only if it has an upcoming episode
\* in its current season, and is otherwise returned still completed.
C1_CompletedMovesIffUpcoming ==
  Returned =>
    \A i \in 1..Len(userShows) :
      userShows[i].status = "completed" =>
        /\ HasEntry(userShows[i].id)
        /\ LET r == EntryOf(userShows[i].id)
           IN /\ r.hasUpcomingEpisodesInCurrentSeason <=> UpcomingFor(i)
              /\ IF UpcomingFor(i) THEN r.status = "watching"
                                   ELSE r.status = "completed"

\* A pass returned one completed show moved to watching and another one,
\* tagged soon, left completed.
C1_Witness ==
  /\ Returned
  /\ \E i, k \in 1..Len(userShows) :
       /\ userShows[i].status = "completed" /\ UpcomingFor(i)
       /\ EntryOf(userShows[i].id).status = "watching"
       /\ userShows[k].status = "completed" /\ SoonFor(k)
       /\ EntryOf(userShows[k].id).status = "completed"

\* C2: the completed-to-watching move is the only automatic status change
\* of an enrichment pass: a show that was not completed keeps its status,
\* and a completed show without an upcoming same-season episode stays
\* completed and is named by no update command, whatever its new-season tag.
C2_OnlyCompletedToWatching ==
  Returned =>
    \A i \in 1..Len(userShows) :
      /\ HasEntry(userShows[i].id)
      /\ userShows[i].status # "completed" =>
           EntryOf(userShows[i].id).status = userShows[i].status
      /\ (userShows[i].status = "completed" /\ ~UpcomingFor(i)) =>
           /\ EntryOf(userShows[i].id).status = "completed"
           /\ userShows[i].id \notin NamedIds

\* C3: with metadata available, hasUpcomingEpisodesInCurrentSeason is true
\* if and only if the next episode exists, airs strictly after now, the
\* last episode exists and both are of the same season.
C3_UpcomingIff ==
  Returned =>
    \A i \in 1..Len(userShows) :
      MetaAvailable(i) =>
        /\ HasEntry(userShows[i].id)
        /\ EntryOf(userShows[i].id).hasUpcomingEpisodesInCurrentSeason
             <=> UpcomingFor(i)

\* The flag is set for a same-season next episode airing tomorrow, and the
\* pass ran at midnight sharp.
C3_Witness ==
  /\ Returned
  /\ clock.t = 0
  /\ UpcomingFor(1)
  /\ NextAirInstant(1) = NowAt + TicksPerDay
  /\ rendered[1].hasUpcomingEpisodesInCurrentSeason

\* C4: newSeasonTag is soon if and only if the next episode exists in a
\* season strictly higher than the last episode's and airs in
\* (now, now + 3 months], lower bound excluded and upper bound included.
C4_SoonIff ==
  Returned =>
    \A i \in 1..Len(userShows) :
      /\ HasEntry(userShows[i].id)
      /\ EntryOf(userShows[i].id).newSeasonTag = "soon" <=> SoonFor(i)

\* A higher-season episode airing exactly at now + 3 months is tagged soon.
C4_Witness ==
  /\ Returned
  /\ SoonFor(1)
  /\ NextAirInstant(1) = ThreeMonthsLater(clock)
  /\ rendered[1].newSeasonTag = "soon"

\* C5: newSeasonTag is out if and only if soon did not fire, the latest
\* season has a premiere date, numberOfSeasons > 1, the highest season among
\* the user's watch marks of the show (0 without marks) is below
\* numberOfSeasons, and the premiere lies in [now - 3 months, now].
C5_OutIff ==
  Returned =>
    \A i \in 1..Len(userShows) :
      /\ HasEntry(userShows[i].id)
      /\ EntryOf(userShows[i].id).newSeasonTag = "out" <=> OutFor(i)

\* The tag is out for a show the user has marks of, all below the latest
\* season, whose latest season premiered exactly three months ago.
C5_Witness ==
  /\ Returned
  /\ OutFor(1)
  /\ MaxMarkedSeason(1) >= 1
  /\ MidnightOf(Val(MetaGiven(1).latestSeasonAirDate)) = ThreeMonthsAgo(clock)
  /\ rendered[1].newSeasonTag = "out"

\* The shows one call moved from completed to watching.
MovedIds ==
  { userShows[i].id : i \in { n \in 1..Len(userShows) :
      /\ userShows[n].status = "completed"
      /\ HasEntry(userShows[n].id)
      /\ EntryOf(userShows[n].id).status = "watching" } }

\* C6: the update command of one enrichUserShows call names exactly the
\* shows the call moved from completed to watching, each once; when no
\* show is moved no command is issued.
C6_CommandNamesExactlyTheMoved ==
  Returned =>
    IF MovedIds = {} THEN updateCmds = <<>>
    ELSE /\ Len(updateCmds) = 1
         /\ updateCmds[1].status = "watching"
         /\ { updateCmds[1].ids[k] : k \in 1..Len(updateCmds[1].ids) } = MovedIds
         /\ Len(updateCmds[1].ids) = Cardinality(MovedIds)

\* One command names the moved shows while another show of the list, with
\* an upcoming episode but not completed, is not named.
C6_Witness ==
  /\ Returned
  /\ Len(updateCmds) = 1
  /\ Cardinality(MovedIds) >= 1
  /\ \E i \in 1..Len(userShows) :
       /\ UpcomingFor(i)
       /\ userShows[i].status # "completed"
       /\ userShows[i].id \notin NamedIds

\* C7: when the fire-and-forget write fails the call has returned the full
\* list without error and every show it moved is still returned as
\* watching; the stored status is left behind.
C7_FailedWriteKeepsList ==
  \A k \in 1..Len(updateCmds) :
    writes[k] = "failed" =>
      /\ pc = "returned"
      /\ Len(rendered) = Len(userShows)
      /\ \A n \in 1..Len(updateCmds[k].ids) :
           /\ HasEntry(updateCmds[k].ids[n])
           /\ EntryOf(updateCmds[k].ids[n]).status = "watching"

\* A write failed after a pass that moved a show: the error is logged, the
\* list shows watching and the store still holds completed.
C7_Witness ==
  /\ Len(writes) = 1 /\ writes[1] = "failed"
  /\ errorLog = 1
  /\ \E i \in 1..Len(userShows) :
       /\ userShows[i].id \in NamedIds
       /\ EntryOf(userShows[i].id).status = "watching"
       /\ stored[userShows[i].id] = "completed"

ComputedFields(r) ==
  <<r.newSeasonTag, r.nextEpisodeAirDate, r.hasUpcomingEpisodesInCurrentSeason,
    r.status>>

\* The list of the same call had every failed fetch delivered metadata m.
WithoutFailure(m) ==
  EnrichedSorted(userShows,
                 [ i \in 1..Len(userShows) |->
                     IF MetaAvailable(i) THEN metaFetch[i] ELSE Fulfilled(Some(m)) ],
                 watchFetch, clock)

\* C8: whichever metadata fetches fail (reject or yield null), the returned
\* list holds every input show exactly once; a failed show has tag null, no
\* next air date, no upcoming flag and its input status, and the computed
\* fields of the other shows are those of the call in which no fetch fails.
C8_FetchFailureIsIsolated ==
  Returned =>
    /\ Len(rendered) = Len(userShows)
    /\ \A i \in 1..Len(userShows) : HasEntry(userShows[i].id)
    /\ \A i \in 1..Len(userShows) :
         ~MetaAvailable(i) =>
           ComputedFields(EntryOf(userShows[i].id))
             = <<"null", Null, FALSE, userShows[i].status>>
    /\ \A m \in ListMetas(clock) :
         LET full == WithoutFailure(m)
         IN \A i \in 1..Len(userShows) :
              MetaAvailable(i) =>
                \E j \in 1..Len(userShows) :
                  /\ full[j].id = userShows[i].id
                  /\ ComputedFields(full[j]) = ComputedFields(EntryOf(userShows[i].id))

\* One fetch rejected, one yielded null, and a show whose fetch succeeded
\* was moved to watching.
C8_Witness ==
  /\ Returned
  /\ \E i, k \in 1..Len(userShows) :
       /\ i # k
       /\ metaFetch[i].status = "rejected" \/ metaFetch[i] = Fulfilled(Null)
       /\ userShows[i].status = "completed"
       /\ MetaAvailable(k) /\ UpcomingFor(k) /\ userShows[k].status = "completed"
       /\ EntryOf(userShows[k].id).status = "watching"
       /\ EntryOf(userShows[k].id).newSeasonTag = "out"

\* The priority tiers as the claim gives them.
TierOf(st) ==
  CASE st = "watching" -> 0
    [] st = "plan_to_watch" -> 1
    [] st = "on_hold" -> 2
    [] st = "completed" -> 3
    [] st = "dropped" -> 4
    [] OTHER -> 5

\* C10: the returned list is in non-decreasing priority tier, the tier
\* taken from the status after the auto-transition.
C10_TiersNonDecreasing ==
  Returned =>
    \A j, k \in 1..Len(rendered) :
      j < k => TierOf(rendered[j].status) <= TierOf(rendered[k].status)

\* A show moved to watching in this call is placed before a plan_to_watch
\* show that came before it in the input.
C10_Witness ==
  /\ Returned
  /\ \E i, k \in 1..Len(userShows) :
       /\ i < k
       /\ userShows[i].status = "plan_to_watch"
       /\ userShows[k].id \in MovedIds
       /\ PositionOf(userShows[k].id) < PositionOf(userShows[i].id)

\* C9: under every interleaving of the pass's fire-and-forget write with a
\* status change the user makes on the same show after the pass read its
\* list, once both writes have completed the stored status is the one the
\* user chose.
C9_UserChoiceSurvives ==
  ( /\ Len(writes) = 1 /\ writes[1] = "ok"
    /\ hss.at = "done" )
  => stored[1] = hss.newStatus

\* ---- the ordering within a tier (checked under SpecSort) ----

\* The date signal of the show with id i, from what the pass was given.
DateSignal(i) ==
  IF ~MetaAvailable(i) THEN Null
  ELSE IF /\ MetaGiven(i).lastEpisode # Null
          /\ Val(MetaGiven(i).lastEpisode).airDate # Null
       THEN Val(MetaGiven(i).lastEpisode).airDate
       ELSE MetaGiven(i).latestSeasonAirDate

SameTier(a, b) == TierOf(a.status) = TierOf(b.status)

\* C11: within one priority tier a show with a date signal comes before
\* every show without one, and of two shows with different date signals
\* the one with the later date comes first.
C11_DatedFirstLaterFirst ==
  Returned =>
    \A j, k \in 1..Len(rendered) :
      (j < k /\ SameTier(rendered[j], rendered[k])) =>
        LET sj == DateSignal(rendered[j].id)
            sk == DateSignal(rendered[k].id)
        IN /\ sk # Null => sj # Null
           /\ (sj # Null /\ sk # Null /\ sj # sk) => Val(sj) > Val(sk)

\* A show whose signal is its season's premiere date (it has no last
\* episode) overtakes a show of its tier that came first in the input and
\* whose last episode aired earlier, although that show's season opened on
\* the same day as the other's.
C11_Witness ==
  /\ Returned
  /\ \E i, k \in 1..Len(userShows) :
       /\ i < k
       /\ userShows[i].status = userShows[k].status
       /\ MetaAvailable(i) /\ MetaAvailable(k)
       /\ MetaGiven(i).lastEpisode # Null
       /\ MetaGiven(k).lastEpisode = Null
       /\ MetaGiven(i).latestSeasonAirDate = MetaGiven(k).latestSeasonAirDate
       /\ DateSignal(i) # Null /\ DateSignal(k) # Null
       /\ Val(DateSignal(k)) > Val(DateSignal(i))
       /\ PositionOf(userShows[k].id) < PositionOf(userShows[i].id)

ComparatorTie(i, k) ==
  /\ SameTier(EntryOf(i), EntryOf(k))
  /\ DateSignal(i) = DateSignal(k)
  /\ DateSignal(i) = Null => userShows[i].created_at = userShows[k].created_at

\* C13: two shows for which the comparator returns 0 appear in the output
\* in the same relative order as in the input.
C13_TiesKeepInputOrder ==
  Returned =>
    \A i, k \in 1..Len(userShows) :
      (i < k /\ ComparatorTie(userShows[i].id, userShows[k].id))
      => PositionOf(userShows[i].id) < PositionOf(userShows[k].id)

\* Two shows tie on the date, the one created earlier came first in the
\* input, and it is still first in the output.
C13_Witness ==
  /\ Returned
  /\ \E i, k \in 1..Len(userShows) :
       /\ i < k
       /\ ComparatorTie(userShows[i].id, userShows[k].id)
       /\ DateSignal(userShows[i].id) # Null
       /\ userShows[i].created_at < userShows[k].created_at
       /\ PositionOf(userShows[i].id) < PositionOf(userShows[k].id)

\* C14: sorting the returned list again, with the same comparator and the
\* same metadata, returns the identical list.
C14_SortingAgainChangesNothing ==
  Returned => SortShows(rendered, userShows, metaFetch) = rendered

\* The pass reordered its input: the undated show that came first is
\* returned after the dated show of its tier.
C14_Witness ==
  /\ Returned
  /\ Len(rendered) = Len(userShows)
  /\ \E i, k \in 1..Len(userShows) :
       /\ i < k
       /\ userShows[i].status = userShows[k].status
       /\ DateSignal(userShows[i].id) = Null
       /\ DateSignal(userShows[k].id) # Null
       /\ PositionOf(userShows[k].id) < PositionOf(userShows[i].id)

\* ---- a failed watch-progress query ----

\* The out tag's condition for show i when no episode counts as watched.
OutForUnwatched(i) ==
  /\ MetaAvailable(i)
  /\ ~SoonFor(i)
  /\ MetaGiven(i).latestSeasonAirDate # Null
  /\ MetaGiven(i).numberOfSeasons > 1
  /\ ThreeMonthsAgo(clock) <= MidnightOf(Val(MetaGiven(i).latestSeasonAirDate))
  /\ MidnightOf(Val(MetaGiven(i).latestSeasonAirDate)) <= NowAt

\* C15: when the watch-progress query delivers no data the call still
\* returns every show, enriched and ordered as with an empty set of watch
\* marks, and no show's out tag is suppressed.
C15_WatchFailureDegrades ==
  (Returned /\ watchFetch.data = Null) =>
    /\ Len(rendered) = Len(userShows)
    /\ rendered = EnrichedSorted(userShows, metaFetch, [data |-> Some({})], clock)
    /\ \A i \in 1..Len(userShows) :
         /\ HasEntry(userShows[i].id)
         /\ OutForUnwatched(i) <=> EntryOf(userShows[i].id).newSeasonTag = "out"

\* The query failed and the pass returned two shows, one of them tagged
\* out.
C15_Witness ==
  /\ Returned
  /\ watchFetch.data = Null
  /\ Len(rendered) = 2
  /\ \E i \in 1..Len(userShows) :
       OutForUnwatched(i) /\ EntryOf(userShows[i].id).newSeasonTag = "out"

\* ---- the calls of lib/watch-progress.ts (checked under SpecMarks) ----

Ended(call) == call.at \in {"returned", "threw"}

HasMark(store, showId, ep) == MarkRow(showId, ep) \in store

\* The marks of the table other than the one of (showId, ep).
OtherMarks(store, showId, ep) == store \ { MarkRow(showId, ep) }

\* C16: a batch call that got an error from any of its store writes
\* throws, and it returns normally only when every episode of the batch
\* has been applied: marked by markSeasonWatched and markAllWatched,
\* unmarked by unmarkSeasonWatched.
C16_BatchNeverHalfSucceeds ==
  (wp.fn \in BatchFns /\ Ended(wp)) =>
    /\ wp.storeFailed => wp.at = "threw"
    /\ wp.at = "returned" =>
         \A e \in SeqRange(wp.eps) :
           IF wp.fn = "unmarkSeasonWatched"
           THEN ~HasMark(watchStore, wp.showId, e)
           ELSE HasMark(watchStore, wp.showId, e)

\* unmarkSeasonWatched deleted the first mark of a season of two, got an
\* error on the second and threw, the second mark still stored.
C16_Witness ==
  /\ wp.fn = "unmarkSeasonWatched"
  /\ wp.at = "threw"
  /\ wp.storeFailed
  /\ wp.i = 1
  /\ Len(wp.eps) = 2
  /\ HasMark(wp.before, wp.showId, wp.eps[1])
  /\ ~HasMark(watchStore, wp.showId, wp.eps[1])
  /\ HasMark(watchStore, wp.showId, wp.eps[2])

\* wpPrev and wp are two calls of fn1 and then fn2 for the same episode
\* that both returned normally.
BothReturned(fn1, fn2) ==
  /\ wpPrev.fn = fn1 /\ wpPrev.at = "returned"
  /\ wp.fn = fn2 /\ wp.at = "returned"
  /\ wp.showId = wpPrev.showId
  /\ wp.eps = wpPrev.eps

\* C17: after markEpisodeWatched was called twice for one episode the
\* table is as the first call left it, holds exactly one mark of that
\* episode, and every other mark is as before the calls.
C17_MarkTwiceIsMarkOnce ==
  BothReturned("markEpisodeWatched", "markEpisodeWatched") =>
    /\ watchStore = wp.before
    /\ Cardinality({ r \in watchStore :
                       /\ r.tvmaze_show_id = wp.showId
                       /\ r.season = wp.eps[1].season
                       /\ r.episode = wp.eps[1].episode }) = 1
    /\ OtherMarks(watchStore, wp.showId, wp.eps[1])
         = OtherMarks(wpPrev.before, wp.showId, wp.eps[1])

\* The episode was unmarked before the two calls, while the other episode
\* of its season and an episode of another show were marked.
C17_Witness ==
  /\ BothReturned("markEpisodeWatched", "markEpisodeWatched")
  /\ ~HasMark(wpPrev.before, wp.showId, wp.eps[1])
  /\ \E r \in wpPrev.before :
       r.tvmaze_show_id = wp.showId /\ r.season = wp.eps[1].season
  /\ \E r \in wpPrev.before : r.tvmaze_show_id # wp.showId

\* C18 as stated: markEpisodeWatched and then unmarkEpisodeWatched for the
\* same episode leave the table as it was before the two calls.
C18_RoundTripAlways ==
  BothReturned("markEpisodeWatched", "unmarkEpisodeWatched") =>
    watchStore = wpPrev.before

\* C18, amended: for an episode that had no mark before the two calls,
\* markEpisodeWatched and then unmarkEpisodeWatched leave the table as it
\* was before them.
C18_RoundTripFromUnmarked ==
  ( /\ BothReturned("markEpisodeWatched", "unmarkEpisodeWatched")
    /\ ~HasMark(wpPrev.before, wp.showId, wp.eps[1]) )
  => watchStore = wpPrev.before

\* The round trip was made for an unmarked episode; the mark was in the
\* table between the calls, and other marks were there throughout.
C18_Witness ==
  /\ BothReturned("markEpisodeWatched", "unmarkEpisodeWatched")
  /\ ~HasMark(wpPrev.before, wp.showId, wp.eps[1])
  /\ HasMark(wp.before, wp.showId, wp.eps[1])
  /\ \E r \in wpPrev.before :
       r.tvmaze_show_id = wp.showId /\ r.season = wp.eps[1].season

\* C19: unmarkEpisodeWatched for an episode without a mark leaves the
\* table unchanged, and with a signed-in user and a store that answers
\* without an error it returns normally.
C19_UnmarkOfNoMarkIsNoOp ==
  ( /\ wp.fn = "unmarkEpisodeWatched"
    /\ Ended(wp)
    /\ ~HasMark(wp.before, wp.showId, wp.eps[1]) )
  => /\ watchStore = wp.before
     /\ (wp.user /\ ~wp.storeFailed) => wp.at = "returned"

\* The call returned normally for an episode without a mark, other marks
\* being stored.
C19_Witness ==
  /\ wp.fn = "unmarkEpisodeWatched"
  /\ wp.at = "returned"
  /\ ~HasMark(wp.before, wp.showId, wp.eps[1])
  /\ wp.before # {}

\* ---- the backfill of the show-detail page (checked under SpecLoad) ----

\* C20: a backfill write is issued only by an evaluation that closed over
\* status completed and fetched an empty set, it writes the released,
\* numbered episodes, and once a backfill write has succeeded no later
\* evaluation of the load effect in the session issues another.
C20_BackfillAtMostOnce ==
  /\ \A k \in 1..Len(backfillLog) :
       /\ backfillLog[k].status = "completed"
       /\ backfillLog[k].fetched = {}
       /\ SeqRange(backfillLog[k].eps) = ReleasedEpisodes(clock)
  /\ \A j, k \in 1..Len(backfillLog) :
       j < k => ~backfillLog[j].ok

\* ---- the status handlers of the show-detail page (SpecStatus) ----

\* C21: when handleStatusSelect or handleRemove fails at any step (no
\* signed-in user, store write error, bulk-mark error), the tracking
\* status on the page is the one it had before the call.
C21_FailureRestoresStatus ==
  [][ /\ (hss.at # "failed" /\ hss'.at = "failed") => trackingStatus' = hss.prev
      /\ (hr.at # "failed" /\ hr'.at = "failed") => trackingStatus' = hr.prev ]_vars

\* handleStatusSelect failed in its bulk mark, after the upsert stored
\* completed: the page shows the earlier, different status again.
C21_Witness ==
  /\ hss.at = "failed"
  /\ hss.newStatus = "completed"
  /\ 1 \in DOMAIN stored
  /\ stored[1] = "completed"
  /\ hss.prev # "completed"
  /\ trackingStatus = hss.prev

\* C22: enrichUserShows on an empty list returns an empty list and performs
\* no metadata fetch, no watch-progress query and no status-update write.
C22_EmptyListNoCalls ==
  Len(userShows) = 0 =>
    /\ rendered = <<>>
    /\ fetched = <<>>
    /\ watchQueries = 0
    /\ updateCmds = <<>>
    /\ writes = <<>>
    /\ pc \in {"idle", "returned"}

\* The call on an empty list has returned.
C22_Witness ==
  /\ Len(userShows) = 0
  /\ pc = "returned"
  /\ rendered = <<>>

\* ---- getShowSeasonMeta (checked under SpecSeasons) ----

\* The regular seasons of the answer and the highest-numbered one of them.
RegularSeasons ==
  IF rawSeasons = Null THEN {}
  ELSE { x \in { Val(rawSeasons)[i] : i \in 1..Len(Val(rawSeasons)) } : x.season_number > 0 }

HighestRegularSeason ==
  CHOOSE x \in RegularSeasons : \A y \in RegularSeasons : y.season_number <= x.season_number

\* C23: the latestSeasonAirDate returned by getShowSeasonMeta is the air
\* date of the highest-numbered regular season (season_number > 0) of the
\* show, for every list of seasons, also when some seasons have no air date.
C23_AirDateOfHighestRegularSeason ==
  (seasonMeta.at = "ok" /\ RegularSeasons # {}) =>
    seasonMeta.latestSeasonAirDate = HighestRegularSeason.air_date

\* ---- automatic status changes (checked under SpecAuto) ----

\* C24: over enrichment passes and page loads without a user action, the
\* enrichment's auto-move and the page's auto-complete never undo each
\* other: the stored status of a show is changed automatically at most once.
C24_AutoChangeAtMostOnce == Len(autoLog) <= 1

\* ---- the toggles of the show-detail page (checked under SpecToggle) ----

\* C25: once every toggleEpisode and toggleSeasonWatched call in flight has
\* finished, with its rollback or re-fetch, the watched set on the page is
\* the set of marks the store holds for the show.
C25_WatchedSetAgreesWithStore ==
  toggles = {} => watchedSet = KeysOf(watchStore, 1)

\* ---- the end of handleStatusSelect (checked under SpecStatus) ----

\* The status of show 1 in user_shows, "null" without a row.
StoredStatus == IF 1 \in DOMAIN stored THEN stored[1] ELSE "null"

\* C26: whenever handleStatusSelect has finished, by success or by failure,
\* the tracking status on the page is the status stored in user_shows for
\* the show (none without a row), also when the upsert succeeded and the
\* bulk mark failed.
C26_PageStatusIsStoredStatus ==
  [][ (hss.at \notin {"done", "failed"} /\ hss'.at \in {"done", "failed"})
        => trackingStatus' = StoredStatus' ]_vars

\* C27: whenever no handleStatusSelect call is running, bulkMarkingRef is
\* false, whatever the outcome of the earlier calls.
C27_FlagFalseWhenIdle ==
  hss.at \in {"idle", "done", "failed"} => ~bulkMarkingRef

\* ---- what the backfill is issued on (checked under SpecLoad) ----

\* C28: the load effect issues its backfill write only for a show without
\* stored watch marks; while the store holds a mark of the show, loading the
\* page writes no marks, also when the read of the marks failed.
C28_BackfillOnlyWithoutMarks ==
  load.at = "backfillWrite" => KeysOf(watchStore, 1) = {}

\* ---- auto-complete (checked under LiveComplete) ----

\* The watch data is loaded and holds every released, numbered episode of a
\* tracked show that is not completed.
AllWatchedNotCompleted ==
  /\ trackingStatus \notin {"undefined", "null", "completed"}
  /\ ~watchLoading
  /\ ReleasedKeys(clock) # {}
  /\ ReleasedKeys(clock) \subseteq watchedSet

CompletedEverywhere ==
  trackingStatus = "completed" /\ StoredStatus = "completed"

\* C29: for a tracked show that is not completed, once the watch data is
\* loaded and holds every released, numbered episode, the status becomes
\* completed on the page and in the store, the store writes succeeding; and
\* a completed status is left only by the user's own selection, never by
\* unmarking episodes.
C29_AutoCompleteIsLive ==
  /\ AllWatchedNotCompleted ~> CompletedEverywhere
  /\ [][ /\ (trackingStatus = "completed" /\ trackingStatus' # "completed")
            => (hss.at # "getUser" /\ hss'.at = "getUser")
         /\ (StoredStatus = "completed" /\ StoredStatus' # "completed")
            => (hss.at = "upsert" /\ hss'.at = "done") ]_vars

\* The effect completed a show the page showed as watching, and an episode
\* of the completed show has since been unmarked.
C29_Witness ==
  /\ auto.at = "done"
  /\ auto.prev = "watching"
  /\ autoLog # <<>>
  /\ CompletedEverywhere
  /\ toggles = {}
  /\ ~(ReleasedKeys(clock) \subseteq watchedSet)

\* ---- the typed search (checked under SpecSearch) ----

\* C30: once the user has stopped typing and every request has settled,
\* the results and the status shown belong to the text typed last: results
\* are those of that text, and a blank text shows no results and no
\* success.
C30_ShowsLatestQuery ==
  (debounceRef = Null /\ inFlight = {}) =>
    IF trim(query) = <<>>
    THEN searchResults = Null /\ status = "idle"
    ELSE /\ status \in {"success", "empty", "error"}
         /\ searchResults \in {Null, Some(trim(query))}

====
